---- MODULE Spec2Model ----
(***************************************************************************)
(* Model of the geocoding cache and client of geo_utils.py:                *)
(*   - check_api_response, process_geocoding_result                        *)
(*   - single_reverse_geocode_fixed (one coroutine per coordinate)         *)
(*   - batch_reverse_geocode (batches of concurrent coroutines)            *)
(*   - reverse_geocode (the synchronous lookup)                            *)
(* Coordinates are integers in units of 1e-6 degree, so round(x, 5) is the *)
(* nearest multiple of 10 and round(x, 4) the nearest multiple of 100.     *)
(***************************************************************************)
EXTENDS Integers, Sequences, FiniteSets, TLC

VARIABLES
    geo_cache,        \* geo_utils.geo_cache: key -> GeoResult
    cache_file,       \* content of config/geo_cache.json
    stats,            \* _global_stats counters
    geoapify_key,     \* TRUE iff the geoapify_key argument is non-empty
    pc,               \* position of batch_reverse_geocode / of the caller
    coordinates,      \* argument of batch_reverse_geocode
    batch_size,       \* argument of batch_reverse_geocode
    uncached_coords,  \* local of batch_reverse_geocode
    batch_num,        \* 1-based index of the batch being processed
    tasks,            \* the coroutines of the current batch
    results,          \* local of batch_reverse_geocode: coordinate -> GeoResult
    raised,           \* the exception that left batch_reverse_geocode
    reqCount,         \* history: key -> number of HTTP requests issued for it
    reqBatches,       \* history: batch numbers in which a request was issued
    fatalBatches,     \* history: batch numbers in which a fatal status arrived
    calls,            \* history: one record per reverse_geocode call
    cancelled,        \* unified_progress[user][task_id]['cancelled'], read by cancel_check
    user_files,       \* content of config/users/{username}/geo_cache.json, per user
    user_runs,        \* the analyze_in_background thread of each user
    stats_lock,       \* _global_stats.lock: the thread that holds it, 0 when free
    stat_threads,     \* the threads that call methods of _global_stats
    stats_done,       \* history: the counters after the completed method calls
    snapshots,        \* history: what get_stats returned, with stats_done then
    coord_input,      \* argument of LocationProcessor.parse_coordinates
    coord_result,     \* what parse_coordinates returned
    points,           \* filtered_points of process_timeline_path before sampling
    path_info,        \* original_length and distance_threshold of that path
    max_points,       \* the cap process_timeline_path computed
    sampled,          \* filtered_points after sampling
    settings,         \* argument of process_file
    entries,          \* the entries process_file loaded
    relevant_entries, \* what fast_date_filter returned
    file_result,      \* what process_file returned
    proc_pc,          \* position of the LocationProcessor call
    map_data,         \* LocationMapViewer.map_data
    final_points,     \* what extract_coordinates returned
    map_obj,          \* the PolyLines added to the folium map of create_map
    view_pc           \* the last route of the map viewer that was served

\* The state of the geocoding functions of geo_utils.py
geoVars == <<geo_cache, cache_file, stats, geoapify_key, pc, coordinates, batch_size,
             uncached_coords, batch_num, tasks, results, raised, reqCount,
             reqBatches, fatalBatches, calls>>

lockVars == <<stats_lock, stat_threads, stats_done, snapshots>>

\* The state of a LocationProcessor call (unified_app.py)
procVars == <<coord_input, coord_result, points, path_info, max_points, sampled,
              settings, entries, relevant_entries, file_result, proc_pc>>

\* The state of a LocationMapViewer (location_map_viewer.py)
viewVars == <<map_data, final_points, map_obj, view_pc>>

\* The state of the callers, which the geocoding functions leave alone
otherVars == <<cancelled, user_files, user_runs, lockVars, procVars, viewVars>>

vars == <<geoVars, otherVars>>

batchVars == <<coordinates, batch_size, uncached_coords, batch_num, tasks, results,
               raised, reqBatches, fatalBatches>>

---------------------------------------------------------------------------
(* Bounds *)

MaxCoords == 2       \* longest input list of batch_reverse_geocode
MaxBatchSize == 2    \* largest batch_size argument tried
MaxCalls == 2        \* number of reverse_geocode calls in a run of SpecSync
MaxOps == 2          \* number of GeocodingStats method calls of a thread
MaxPoints == 21      \* longest timeline path handed to the sampling step
MaxEntries == 2      \* longest entry list of a file
MaxPathPoints == 3   \* longest timeline path built from PathPoints
LongPathLen == 12    \* length of the long timeline paths
MaxViewEntries == 3  \* longest entry list of a file loaded into the map viewer

---------------------------------------------------------------------------
(* Coordinates and cache keys *)

\* (lat, lon) pairs in 1e-6 degree.  The first two share their 5-decimal key,
\* the fourth has the third's 5-decimal key as its 4-decimal fallback key.
\* No value lies on a rounding tie.
CoordSet == {<<101, 100>>, <<103, 104>>, <<200, 100>>, <<212, 97>>}

\* The coordinates the input lists of batch_reverse_geocode are drawn from.
BatchCoordSet == {<<101, 100>>, <<200, 100>>, <<212, 97>>}

Round(x, unit) == ((x + unit \div 2) \div unit) * unit

\* The key string f"{round(lat, 5)},{round(lon, 5)}" is the pair of the rounded
\* values: two key strings are equal iff the rounded values are, and a
\* 4-decimal key equals the 5-decimal key of a coordinate with 4 decimals.
Key(c) == <<Round(c[1], 10), Round(c[2], 10)>>

KeyFallback(c) == <<Round(c[1], 100), Round(c[2], 100)>>

AllKeys == {Key(c) : c \in CoordSet} \cup {KeyFallback(c) : c \in CoordSet}

Put(cache, k, v) == [x \in DOMAIN cache \cup {k} |-> IF x = k THEN v ELSE cache[x]]

---------------------------------------------------------------------------
(* HTTP statuses, transport failures, response bodies *)

FatalStatuses == {400, 401, 403}

Statuses == {200, 202, 400, 401, 403, 404, 429, 500, 302}

StatusOutcome(s) == [kind |-> "status", status |-> s]

TimeoutOutcome == [kind |-> "timeout", status |-> 0]

ExceptionOutcome == [kind |-> "exception", status |-> 0]

\* What session.get / requests.get can produce: a response or a transport failure.
Outcomes == {StatusOutcome(s) : s \in Statuses} \cup {TimeoutOutcome, ExceptionOutcome}

NoExc == [status_code |-> 0, should_stop |-> FALSE]

APIError(status, stop) == [status_code |-> status, should_stop |-> stop]

CheckApiResponseFatal404(response_status) ==
    IF response_status \in {200, 202} THEN NoExc
    ELSE APIError(response_status, response_status \in FatalStatuses \cup {404})

\* NoExc when the function returns True, the APIError it raises otherwise.
CheckApiResponse(response_status) ==
    CASE response_status = 200 -> NoExc
      [] response_status = 202 -> NoExc
      [] response_status = 400 -> APIError(response_status, TRUE)
      [] response_status = 401 -> APIError(response_status, TRUE)
      [] response_status = 403 -> APIError(response_status, TRUE)
      [] response_status = 404 -> APIError(response_status, FALSE)
      [] response_status = 429 -> APIError(response_status, FALSE)
      [] response_status >= 500 -> APIError(response_status, FALSE)
      [] OTHER -> APIError(response_status, FALSE)

NoResult == [is_water |-> FALSE, place |-> "<none>", city |-> "", state |-> "",
             country |-> ""]

Sentinel(place) == [is_water |-> TRUE, place |-> place, city |-> "Unknown",
                    state |-> "", country |-> ""]

\* f"api error {e.status_code}"
ApiErrorPlace(code) ==
    CASE code = 404 -> "api error 404"
      [] code = 429 -> "api error 429"
      [] code = 500 -> "api error 500"
      [] code = 302 -> "api error 302"
      [] OTHER -> "api error"

\* Response bodies: a feature collection without features, or with one feature.
NoProps == [name |-> "", city |-> "", state |-> "", country |-> "",
            category |-> "", class |-> ""]

Bodies == {
    [features |-> FALSE, props |-> NoProps],
    [features |-> TRUE,
     props |-> [name |-> "Main Street", city |-> "Seattle", state |-> "Washington",
                country |-> "United States", category |-> "", class |-> ""]],
    [features |-> TRUE,
     props |-> [name |-> "Half Moon Bay", city |-> "", state |-> "California",
                country |-> "United States", category |-> "", class |-> ""]] }

\* str.lower() on the names of Bodies
Lower(name) ==
    CASE name = "Main Street" -> "main street"
      [] name = "Half Moon Bay" -> "half moon bay"
      [] OTHER -> name

\* any(w in place_name for w in ["waters", "sea", "ocean", "bay", "channel"])
HasWaterWord(place_name) == place_name \in {"half moon bay"}

process_geocoding_result(body) ==
    IF body.features
    THEN LET place_name == Lower(body.props.name)
         IN  [is_water |-> (body.props.category = "natural" /\ body.props.class = "water")
                           \/ HasWaterWord(place_name),
              place |-> place_name,
              city |-> body.props.city,
              state |-> body.props.state,
              country |-> body.props.country]
    ELSE [is_water |-> TRUE, place |-> "open water", city |-> "Unknown",
          state |-> "", country |-> ""]

---------------------------------------------------------------------------
(* GeocodingStats *)

ZeroStats == [cache_hits |-> 0, api_calls |-> 0, errors |-> 0, api_failures |-> 0,
              successful_geocodes |-> 0, batch_requests |-> 0,
              total_coordinates_in_batches |-> 0, water_cache_hits |-> 0]

RecordNoHit(s) == s

record_cache_hit(s) == [s EXCEPT !.cache_hits = @ + 1]
\* record_cache_hit(is_water=True)
record_water_cache_hit(s) == [s EXCEPT !.water_cache_hits = @ + 1]
record_api_call(s) == [s EXCEPT !.api_calls = @ + 1]
record_successful_geocode(s) == [s EXCEPT !.successful_geocodes = @ + 1]
RecordErrorTwice(s) == [s EXCEPT !.errors = @ + 2]

record_error(s) == [s EXCEPT !.errors = @ + 1]
record_api_failure(s) == [s EXCEPT !.api_failures = @ + 1]
record_batch_request(s, n) ==
    [s EXCEPT !.batch_requests = @ + 1, !.total_coordinates_in_batches = @ + n]

---------------------------------------------------------------------------
(* single_reverse_geocode_fixed: one coroutine of a batch *)

\* coord, pc and the returned value or raised exception are the coroutine's;
\* reqs (requests issued), last (what the latest request produced), errs (record_error calls) and late (it ended after a fatal status had
\* arrived in its batch) are history.
NewTask(c) == [coord |-> c, pc |-> "new", reqs |-> 0, last |-> StatusOutcome(0), errs |-> 0, late |-> FALSE,
               kind |-> "none", value |-> NoResult, exc |-> NoExc]

Returned(t, r) == [t EXCEPT !.pc = "done", !.kind = "value", !.value = r,
                            !.late = batch_num \in fatalBatches]

Raised(t, e) == [t EXCEPT !.pc = "done", !.kind = "exc", !.exc = e,
                          !.late = batch_num \in fatalBatches]

SentinelReturnNoCache(t, i, place) ==
    /\ stats' = record_error(stats)
    /\ geo_cache' = geo_cache
    /\ tasks' = [tasks EXCEPT ![i] = Returned([t EXCEPT !.errs = @ + 1], Sentinel(place))]

\* The coroutine returns the sentinel after stats.record_error() and
\* geo_cache[key] = result.
SentinelReturn(t, i, place) ==
    /\ stats' = record_error(stats)
    /\ geo_cache' = Put(geo_cache, Key(t.coord), Sentinel(place))
    /\ tasks' = [tasks EXCEPT ![i] = Returned([t EXCEPT !.errs = @ + 1], Sentinel(place))]

\* asyncio runs the first step of the coroutines of a gather in the order in
\* which they were passed, before any response is delivered.
CanStart(i) ==
    \/ tasks[i].pc = "retry"
    \/ tasks[i].pc = "new" /\ \A j \in 1..(i - 1) : tasks[j].pc # "new"

AllStarted == \A j \in DOMAIN tasks : tasks[j].pc # "new"

\* Up to the first await: the cache check, then the request or the fallback.
TaskStart(i) ==
    /\ pc = "gather"
    /\ CanStart(i)
    /\ LET t == tasks[i]
           key == Key(t.coord)
       IN  IF key \in DOMAIN geo_cache
           THEN /\ stats' = record_cache_hit(stats)
                /\ tasks' = [tasks EXCEPT ![i] = Returned(t, geo_cache[key])]
                /\ UNCHANGED <<geo_cache, reqCount, reqBatches>>
           ELSE IF geoapify_key
           THEN /\ tasks' = [tasks EXCEPT ![i].pc = "waiting", ![i].reqs = @ + 1]
                /\ reqCount' = [reqCount EXCEPT ![key] = @ + 1]
                /\ reqBatches' = reqBatches \cup {batch_num}
                /\ UNCHANGED <<geo_cache, stats>>
           ELSE /\ SentinelReturn(t, i, "geocoding failed")
                /\ UNCHANGED <<reqCount, reqBatches>>
    /\ UNCHANGED <<cache_file, geoapify_key, pc, coordinates, batch_size,
                   uncached_coords, batch_num, results, raised, fatalBatches, calls>>
    /\ UNCHANGED otherVars

\* The response (or the transport failure) of the request arrives.
TaskResponse(i, o) ==
    /\ pc = "gather"
    /\ AllStarted
    /\ tasks[i].pc = "waiting"
    /\ LET t == [tasks[i] EXCEPT !.last = o]
           e == CheckApiResponse(o.status)
       IN  CASE o.kind = "timeout" ->
                  /\ SentinelReturn(t, i, "timeout")
                  /\ UNCHANGED fatalBatches
             [] o.kind = "exception" ->
                  /\ SentinelReturn(t, i, "error: connection reset")
                  /\ UNCHANGED fatalBatches
             [] o.kind = "status" /\ e # NoExc /\ e.should_stop ->
                  /\ stats' = record_api_failure(stats)
                  /\ tasks' = [tasks EXCEPT ![i] = Raised(t, e)]
                  /\ fatalBatches' = fatalBatches \cup {batch_num}
                  /\ UNCHANGED geo_cache
             [] o.kind = "status" /\ e # NoExc /\ ~e.should_stop ->
                  /\ SentinelReturn(t, i, ApiErrorPlace(e.status_code))
                  /\ UNCHANGED fatalBatches
             [] o.kind = "status" /\ e = NoExc /\ o.status = 200 ->
                  /\ tasks' = [tasks EXCEPT ![i] = [t EXCEPT !.pc = "json"]]
                  /\ UNCHANGED <<stats, geo_cache, fatalBatches>>
             [] o.kind = "status" /\ e = NoExc /\ o.status = 429 ->
                  \* await asyncio.sleep(1), then the recursive call
                  /\ tasks' = [tasks EXCEPT ![i] = [t EXCEPT !.pc = "retry"]]
                  /\ UNCHANGED <<stats, geo_cache, fatalBatches>>
             [] OTHER ->
                  /\ SentinelReturn(t, i, "geocoding failed")
                  /\ UNCHANGED fatalBatches
    /\ UNCHANGED <<cache_file, geoapify_key, pc, coordinates, batch_size,
                   uncached_coords, batch_num, results, raised, reqCount,
                   reqBatches, calls>>
    /\ UNCHANGED otherVars

\* What "await response.json()" can produce: a body, or an exception.  (A
\* timeout while the body is read is handled by the clause that handles the
\* timeout of the request, which TimeoutOutcome models.)
JsonOutcomes == {[kind |-> "body", body |-> b] : b \in Bodies}
                \cup {[kind |-> "exception", body |-> [features |-> FALSE, props |-> NoProps]]}

\* The body of a 200 response has been read (or reading it failed).
TaskJson(i, j) ==
    /\ pc = "gather"
    /\ AllStarted
    /\ tasks[i].pc = "json"
    /\ LET t == [tasks[i] EXCEPT !.last = IF j.kind = "exception"
                                          THEN ExceptionOutcome ELSE @]
           result == process_geocoding_result(j.body)
       IN  IF j.kind = "exception"
           THEN SentinelReturn(t, i, "error: invalid json")
           ELSE /\ stats' = record_successful_geocode(record_api_call(stats))
                /\ geo_cache' = Put(geo_cache, Key(t.coord), result)
                /\ tasks' = [tasks EXCEPT ![i] = Returned(t, result)]
    /\ UNCHANGED <<cache_file, geoapify_key, pc, coordinates, batch_size,
                   uncached_coords, batch_num, results, raised, reqCount,
                   reqBatches, fatalBatches, calls>>
    /\ UNCHANGED otherVars

---------------------------------------------------------------------------
(* batch_reverse_geocode *)

MaxBatch == 25

Min(a, b) == IF a < b THEN a ELSE b

BatchesUnbounded(uncached, size) == [k \in 1..1 |-> uncached]

\* [uncached_coords[i:i + batch_size] for i in range(0, len(uncached_coords), batch_size)]
Batches(uncached, size) ==
    LET bs == Min(size, MaxBatch)
        n == Len(uncached)
    IN  [k \in 1..((n + bs - 1) \div bs) |->
            SubSeq(uncached, (k - 1) * bs + 1, Min(k * bs, n))]

\* The loop over coordinates that fills results from the cache: the state
\* <<results, stats, uncached_coords>> after the first n coordinates.
RECURSIVE FilterCached(_, _)
FilterCached(coords, n) ==
    IF n = 0 THEN [results |-> << >>, stats |-> stats, uncached |-> << >>]
    ELSE LET prev == FilterCached(coords, n - 1)
             c == coords[n]
         IN  IF Key(c) \in DOMAIN geo_cache
             THEN [prev EXCEPT !.results = Put(@, c, geo_cache[Key(c)]),
                               !.stats = record_cache_hit(@)]
             ELSE IF KeyFallback(c) \in DOMAIN geo_cache
             THEN [prev EXCEPT !.results = Put(@, c, geo_cache[KeyFallback(c)]),
                               !.stats = record_cache_hit(@)]
             ELSE [prev EXCEPT !.uncached = Append(@, c)]

BatchFilter ==
    /\ pc = "start"
    /\ LET f == FilterCached(coordinates, Len(coordinates))
       IN  /\ results' = f.results
           /\ stats' = f.stats
           /\ uncached_coords' = f.uncached
           /\ IF f.uncached = << >>
              THEN pc' = "returned" /\ UNCHANGED batch_num
              ELSE pc' = "dispatch" /\ batch_num' = 1
    /\ UNCHANGED <<geo_cache, cache_file, geoapify_key, coordinates, batch_size, tasks,
                   raised, reqCount, reqBatches, fatalBatches, calls>>
    /\ UNCHANGED otherVars

\* One coroutine per coordinate of the batch, handed to asyncio.gather.
BatchDispatch ==
    /\ pc = "dispatch"
    /\ LET batch == Batches(uncached_coords, batch_size)[batch_num]
       IN  tasks' = [i \in 1..Len(batch) |-> NewTask(batch[i])]
    /\ pc' = "gather"
    /\ UNCHANGED <<geo_cache, cache_file, stats, geoapify_key, coordinates, batch_size,
                   uncached_coords, batch_num, results, raised, reqCount, reqBatches,
                   fatalBatches, calls>>
    /\ UNCHANGED otherVars

\* asyncio.gather(*batch_tasks, return_exceptions=True) returns once every
\* coroutine has returned or raised.
GatherDoneFailFast(ts) ==
    \/ \A i \in DOMAIN ts : ts[i].pc = "done"
    \/ \E i \in DOMAIN ts : ts[i].pc = "done" /\ ts[i].kind = "exc"

GatherDone(ts) == \A i \in DOMAIN ts : ts[i].pc = "done"

IsStop(t) == t.kind = "exc" /\ t.exc.should_stop

\* Index of the first result that is a should_stop APIError, 0 when there is none.
FirstStopNever(ts) == 0

FirstStop(ts) ==
    IF \E i \in DOMAIN ts : IsStop(ts[i])
    THEN CHOOSE i \in DOMAIN ts : IsStop(ts[i]) /\ \A j \in 1..(i - 1) : ~IsStop(ts[j])
    ELSE 0

Partial(place) == [is_water |-> TRUE, place |-> place, city |-> "<absent>",
                   state |-> "<absent>", country |-> "<absent>"]

\* results[batch[i]] = result
StoreResultByKey(res, c, r) == Put(res, Key(c), r)

StoreResult(res, c, r) == Put(res, c, r)

\* The loop over batch_results, for the first n of them: <<results, stats>>.
RECURSIVE CollectResults(_, _)
CollectResults(ts, n) ==
    IF n = 0 THEN [results |-> results, stats |-> stats]
    ELSE LET prev == CollectResults(ts, n - 1)
             t == ts[n]
         IN  IF t.kind = "exc"
             THEN [prev EXCEPT !.results = StoreResult(@, t.coord,
                                                       Partial("geocoding failed")),
                               !.stats = record_error(@)]
             ELSE [prev EXCEPT !.results = StoreResult(@, t.coord, t.value)]

\* gather has returned: the loop over the results, which raises at the first
\* should_stop APIError, then stats.record_batch_request.  The results are
\* dicts or APIErrors, so nothing in the try block raises another exception
\* and the "except Exception" fallback of the batch is not entered.
BatchCollect ==
    /\ pc = "gather"
    /\ GatherDone(tasks)
    /\ LET stop == FirstStop(tasks)
           done == CollectResults(tasks, IF stop = 0 THEN Len(tasks) ELSE stop - 1)
       IN  /\ results' = done.results
           /\ IF stop = 0
              THEN /\ stats' = record_batch_request(done.stats, Len(tasks))
                   /\ pc' = "sleep"
                   /\ UNCHANGED raised
              ELSE /\ stats' = done.stats
                   /\ pc' = "raised"
                   /\ raised' = tasks[stop].exc
    /\ UNCHANGED <<geo_cache, cache_file, geoapify_key, coordinates, batch_size,
                   uncached_coords, batch_num, tasks, reqCount, reqBatches,
                   fatalBatches, calls>>
    /\ UNCHANGED otherVars

\* await asyncio.sleep(0.2), then the next batch or the end of the loop.
BatchSleep ==
    /\ pc = "sleep"
    /\ IF batch_num < Len(Batches(uncached_coords, batch_size))
       THEN pc' = "dispatch" /\ batch_num' = batch_num + 1
       ELSE pc' = "save" /\ UNCHANGED batch_num
    /\ UNCHANGED <<geo_cache, cache_file, stats, geoapify_key, coordinates, batch_size,
                   uncached_coords, tasks, results, raised, reqCount, reqBatches,
                   fatalBatches, calls>>
    /\ UNCHANGED otherVars

save_geo_cache == cache_file' = geo_cache

\* save_geo_cache() and return results
BatchSave ==
    /\ pc = "save"
    /\ save_geo_cache
    /\ pc' = "returned"
    /\ UNCHANGED <<geo_cache, stats, geoapify_key, coordinates, batch_size,
                   uncached_coords, batch_num, tasks, results, raised, reqCount,
                   reqBatches, fatalBatches, calls>>
    /\ UNCHANGED otherVars

---------------------------------------------------------------------------
(* The callers' state before anything runs *)

\* No analysis thread has been started.
UsersIdle ==
    /\ user_files = << >>
    /\ user_runs = << >>

\* No thread calls a method of _global_stats.
LockIdle ==
    /\ stats_lock = 0
    /\ stat_threads = << >>
    /\ stats_done = ZeroStats
    /\ snapshots = << >>

\* No LocationProcessor call is under way.
ProcIdle ==
    /\ coord_input = << >>
    /\ coord_result = << >>
    /\ points = << >>
    /\ path_info = << >>
    /\ max_points = 0
    /\ sampled = << >>
    /\ settings = << >>
    /\ entries = << >>
    /\ relevant_entries = << >>
    /\ file_result = << >>
    /\ proc_pc = "idle"

\* No file has been loaded into the map viewer.
ViewIdle ==
    /\ map_data = << >>
    /\ final_points = << >>
    /\ map_obj = << >>
    /\ view_pc = "start"

OtherInit ==
    /\ cancelled = FALSE
    /\ UsersIdle
    /\ LockIdle
    /\ ProcIdle
    /\ ViewIdle

---------------------------------------------------------------------------
(* A run of batch_reverse_geocode *)

RECURSIVE SeqsUpTo(_, _)
SeqsUpTo(S, n) ==
    IF n = 0 THEN {<< >>}
    ELSE LET shorter == SeqsUpTo(S, n - 1)
         IN  shorter \cup {Append(s, x) : s \in shorter, x \in S}

LandResult == [is_water |-> FALSE, place |-> "pike place", city |-> "Seattle",
               state |-> "Washington", country |-> "United States"]

\* Cache files found at import: none, or one with an entry of an earlier run.
InitCaches == {<< >>, [k \in {<<200, 100>>} |-> LandResult]}

Init ==
    /\ geo_cache \in InitCaches
    /\ cache_file = geo_cache
    /\ stats = ZeroStats
    /\ geoapify_key \in BOOLEAN
    /\ pc = "start"
    /\ coordinates \in SeqsUpTo(BatchCoordSet, MaxCoords)
    /\ batch_size \in 1..MaxBatchSize
    /\ uncached_coords = << >>
    /\ batch_num = 0
    /\ tasks = << >>
    /\ results = << >>
    /\ raised = NoExc
    /\ reqCount = [k \in AllKeys |-> 0]
    /\ reqBatches = {}
    /\ fatalBatches = {}
    /\ calls = << >>
    /\ OtherInit

---------------------------------------------------------------------------
(* reverse_geocode: the synchronous lookup *)

EmptyDict == [is_water |-> FALSE, place |-> "<empty dict>", city |-> "<absent>",
              state |-> "<absent>", country |-> "<absent>"]

\* The try block of reverse_geocode for response o (body j when it is read):
\* the locals result and api_call_made and the stats after it, and the
\* APIError that leaves it (NoExc when none does).
SyncTry(o, j, s) ==
    LET e == CheckApiResponse(o.status) IN
    CASE o.kind # "status" ->
           \* requests.get raised: except Exception
           [result |-> EmptyDict, api_call_made |-> FALSE, stats |-> record_error(s),
            exc |-> NoExc]
      [] o.kind = "status" /\ e # NoExc /\ e.should_stop ->
           [result |-> EmptyDict, api_call_made |-> FALSE,
            stats |-> record_api_failure(s), exc |-> e]
      [] o.kind = "status" /\ e # NoExc /\ ~e.should_stop ->
           \* the status is not 200, so the branch after the check is skipped
           [result |-> Partial(ApiErrorPlace(e.status_code)), api_call_made |-> FALSE,
            stats |-> record_error(s), exc |-> NoExc]
      [] o.kind = "status" /\ e = NoExc /\ o.status = 200 /\ j.kind = "exception" ->
           \* response.json() raised: except Exception
           [result |-> EmptyDict, api_call_made |-> TRUE, stats |-> record_error(s),
            exc |-> NoExc]
      [] o.kind = "status" /\ e = NoExc /\ o.status = 200 /\ j.kind # "exception" ->
           \* is_meaningful_geocoding_result is not defined in geo_utils: the
           \* call raises NameError after result is assigned: except Exception
           [result |-> process_geocoding_result(j.body), api_call_made |-> TRUE,
            stats |-> record_error(s), exc |-> NoExc]
      [] OTHER ->
           [result |-> EmptyDict, api_call_made |-> FALSE, stats |-> s, exc |-> NoExc]

\* geo_cache[key] = result
SyncCacheWriteSkipFailures(cache, key, result) ==
    IF result.is_water THEN cache ELSE Put(cache, key, result)

SyncCacheWrite(cache, key, result) == Put(cache, key, result)

CallRecord(c, hit, reqs, exc, value) ==
    [coord |-> c, key |-> Key(c), hit |-> hit, reqs |-> reqs, exc |-> exc,
     value |-> value]

\* What reverse_geocode does for coordinate c on cache `cache` and counters s,
\* with response o (body j): the cache and the counters after it, whether it
\* was a cache hit, the requests it issued, the APIError that leaves it (NoExc
\* when it returns), the value it returns, and whether save_geo_cache ran.
SyncOutcome(cache, s, c, o, j) ==
    LET key == Key(c)
        key_fallback == KeyFallback(c)
        tried == IF geoapify_key
                 THEN SyncTry(o, j, s)
                 ELSE [result |-> EmptyDict, api_call_made |-> FALSE,
                       stats |-> s, exc |-> NoExc]
        reqs == IF geoapify_key THEN 1 ELSE 0
        counted == IF tried.result # EmptyDict /\ tried.api_call_made
                   THEN record_api_call(tried.stats)
                   ELSE IF tried.result = EmptyDict
                   THEN record_error(tried.stats)
                   ELSE tried.stats
        result == IF tried.result = EmptyDict
                  THEN Partial("unknown location")
                  ELSE tried.result
    IN  IF key \in DOMAIN cache
        THEN [cache |-> cache, stats |-> record_cache_hit(s), hit |-> TRUE, reqs |-> 0,
              exc |-> NoExc, value |-> cache[key], saved |-> FALSE]
        ELSE IF key_fallback \in DOMAIN cache
        THEN [cache |-> cache, stats |-> record_cache_hit(s), hit |-> TRUE, reqs |-> 0,
              exc |-> NoExc, value |-> cache[key_fallback], saved |-> FALSE]
        ELSE IF tried.exc # NoExc
        THEN [cache |-> cache, stats |-> tried.stats, hit |-> FALSE, reqs |-> reqs,
              exc |-> tried.exc, value |-> NoResult, saved |-> FALSE]
        ELSE [cache |-> SyncCacheWrite(cache, key, result), stats |-> counted,
              hit |-> FALSE, reqs |-> reqs, exc |-> NoExc, value |-> result,
              saved |-> TRUE]

reverse_geocode(c, o, j) ==
    /\ pc = "sync"
    /\ Len(calls) < MaxCalls
    /\ LET done == SyncOutcome(geo_cache, stats, c, o, j)
       IN  /\ geo_cache' = done.cache
           /\ cache_file' = IF done.saved THEN done.cache ELSE cache_file
           /\ stats' = done.stats
           /\ calls' = Append(calls, CallRecord(c, done.hit, done.reqs, done.exc,
                                                done.value))
           /\ reqCount' = [reqCount EXCEPT ![Key(c)] = @ + done.reqs]
    /\ UNCHANGED <<geoapify_key, pc, batchVars>>

InitSync ==
    /\ geo_cache \in InitCaches
    /\ cache_file = geo_cache
    /\ stats = ZeroStats
    /\ geoapify_key \in BOOLEAN
    /\ pc = "sync"
    /\ coordinates = << >>
    /\ batch_size = 1
    /\ uncached_coords = << >>
    /\ batch_num = 0
    /\ tasks = << >>
    /\ results = << >>
    /\ raised = NoExc
    /\ reqCount = [k \in AllKeys |-> 0]
    /\ reqBatches = {}
    /\ fatalBatches = {}
    /\ calls = << >>
    /\ OtherInit

NextSync ==
    \E c \in CoordSet : \E o \in Outcomes : \E j \in JsonOutcomes :
        reverse_geocode(c, o, j) /\ UNCHANGED otherVars

SpecSync == InitSync /\ [][NextSync]_vars

\* f"water:{round(lat, 5)},{round(lon, 5)}" for the rounded pair k
WaterKey(k) == <<"water", k[1], k[2]>>

\* is_over_water for coordinate c; onwater_key tells whether that key is set.
\* Without it reverse_geocode is called (response o, body j) and the is_water
\* flag of its result is stored under the water key.
is_over_water(c, onwater_key, o, j) ==
    /\ pc = "sync"
    /\ Len(calls) < MaxCalls
    /\ LET key == WaterKey(Key(c))
           key_fallback == WaterKey(KeyFallback(c))
           looked == SyncOutcome(geo_cache, stats, c, o, j)
           call(hit, reqs, exc, value) ==
               [CallRecord(c, hit, reqs, exc, value) EXCEPT !.key = key]
       IN  IF key \in DOMAIN geo_cache
           THEN /\ stats' = record_water_cache_hit(stats)
                /\ calls' = Append(calls, call(TRUE, 0, NoExc, geo_cache[key]))
                /\ UNCHANGED <<geo_cache, cache_file, reqCount>>
           ELSE IF key_fallback \in DOMAIN geo_cache
           THEN /\ stats' = record_water_cache_hit(stats)
                /\ calls' = Append(calls, call(TRUE, 0, NoExc, geo_cache[key_fallback]))
                /\ UNCHANGED <<geo_cache, cache_file, reqCount>>
           ELSE IF onwater_key
           THEN /\ calls' = Append(calls, call(FALSE, 0, NoExc, FALSE))
                /\ UNCHANGED <<geo_cache, cache_file, stats, reqCount>>
           ELSE IF looked.exc # NoExc
           THEN /\ stats' = looked.stats
                /\ calls' = Append(calls, call(FALSE, looked.reqs, looked.exc, FALSE))
                /\ reqCount' = [reqCount EXCEPT ![Key(c)] = @ + looked.reqs]
                /\ UNCHANGED <<geo_cache, cache_file>>
           ELSE /\ geo_cache' = Put(looked.cache, key, looked.value.is_water)
                /\ cache_file' = geo_cache'
                /\ stats' = looked.stats
                /\ calls' = Append(calls,
                                   call(FALSE, looked.reqs, NoExc, looked.value.is_water))
                /\ reqCount' = [reqCount EXCEPT ![Key(c)] = @ + looked.reqs]
    /\ UNCHANGED <<geoapify_key, pc, batchVars>>

Next ==
    \/ BatchFilter
    \/ BatchDispatch
    \/ \E i \in DOMAIN tasks : TaskStart(i)
    \/ \E i \in DOMAIN tasks : \E o \in Outcomes : TaskResponse(i, o)
    \/ \E i \in DOMAIN tasks : \E j \in JsonOutcomes : TaskJson(i, j)
    \/ BatchCollect
    \/ BatchSleep
    \/ BatchSave

Spec == Init /\ [][Next]_vars


---------------------------------------------------------------------------
(* A run of batch_reverse_geocode during which the task is cancelled *)

\* The task's 'cancelled' entry becomes true while the run is under way:
\* from then on cancel_check() returns True.  batch_reverse_geocode has no
\* cancellation parameter, so no action of the run reads the flag.
Cancel ==
    /\ pc \in {"start", "dispatch", "gather", "sleep", "save"}
    /\ ~cancelled
    /\ cancelled' = TRUE
    /\ UNCHANGED <<geoVars, user_files, user_runs, lockVars, procVars, viewVars>>

NextCancel ==
    \/ Next
    \/ Cancel

SpecCancel == Init /\ [][NextCancel]_vars

---------------------------------------------------------------------------
(* analyze_in_background: the analysis threads of two users *)

Users == {"alice", "bob"}

\* The coordinates the users' location files hold.
UserCoordSet == {<<101, 100>>, <<200, 100>>}

\* What the requests of the users' lookups produce: a body, a fatal status,
\* a timeout.
UserOutcomes == {StatusOutcome(200), StatusOutcome(403), TimeoutOutcome}

\* A thread before its first statement.  file0 (the user's cache file when the
\* thread started) and mine (the indices in calls of its lookups) are history.
NewRun(file) == [pc |-> "load", user_geo_cache |-> << >>, original_cache |-> << >>,
                 file0 |-> file, mine |-> {}]

load_user_geo_cache(username) == user_files[username]

save_user_geo_cache(files, username, cache_data) ==
    [files EXCEPT ![username] = cache_data]

\* user_geo_cache = load_user_geo_cache(current_user)
RunLoad(u) ==
    /\ user_runs[u].pc = "load"
    /\ user_runs' = [user_runs EXCEPT ![u].pc = "copy",
                                      ![u].user_geo_cache = load_user_geo_cache(u)]
    /\ UNCHANGED <<geoVars, cancelled, user_files, lockVars, procVars, viewVars>>

\* original_cache = geo_utils.geo_cache.copy()
RunCopy(u) ==
    /\ user_runs[u].pc = "copy"
    /\ user_runs' = [user_runs EXCEPT ![u].pc = "swap", ![u].original_cache = geo_cache]
    /\ UNCHANGED <<geoVars, cancelled, user_files, lockVars, procVars, viewVars>>

\* geo_utils.geo_cache = user_geo_cache
RunSwap(u) ==
    /\ user_runs[u].pc = "swap"
    /\ geo_cache' = user_runs[u].user_geo_cache
    /\ user_runs' = [user_runs EXCEPT ![u].pc = "geocode"]
    /\ UNCHANGED <<cache_file, stats, geoapify_key, pc, batchVars, reqCount, calls,
                   cancelled, user_files, lockVars, procVars, viewVars>>

\* One lookup of the analysis of user u.  The stop-signal of a lookup leaves
\* process_location_file and is caught by the except clause of the thread.
RunLookup(u, c, o, j) ==
    /\ user_runs[u].pc = "geocode"
    /\ reverse_geocode(c, o, j)
    /\ user_runs' = [user_runs EXCEPT
                        ![u].mine = @ \cup {Len(calls')},
                        ![u].pc = IF calls'[Len(calls')].exc # NoExc
                                  THEN "failed" ELSE @]
    /\ UNCHANGED <<cancelled, user_files, lockVars, procVars, viewVars>>

\* process_location_file returns.
RunAnalyzed(u) ==
    /\ user_runs[u].pc = "geocode"
    /\ user_runs' = [user_runs EXCEPT ![u].pc = "save"]
    /\ UNCHANGED <<geoVars, cancelled, user_files, lockVars, procVars, viewVars>>

\* save_user_geo_cache(current_user, geo_utils.geo_cache)
RunSave(u) ==
    /\ user_runs[u].pc = "save"
    /\ user_files' = save_user_geo_cache(user_files, u, geo_cache)
    /\ user_runs' = [user_runs EXCEPT ![u].pc = "restore"]
    /\ UNCHANGED <<geoVars, cancelled, lockVars, procVars, viewVars>>

\* geo_utils.geo_cache = original_cache
RunRestore(u) ==
    /\ user_runs[u].pc = "restore"
    /\ geo_cache' = user_runs[u].original_cache
    /\ user_runs' = [user_runs EXCEPT ![u].pc = "done"]
    /\ UNCHANGED <<cache_file, stats, geoapify_key, pc, batchVars, reqCount, calls,
                   cancelled, user_files, lockVars, procVars, viewVars>>

InitUsers ==
    /\ geo_cache = << >>
    /\ cache_file = geo_cache
    /\ stats = ZeroStats
    /\ geoapify_key = TRUE
    /\ pc = "sync"
    /\ coordinates = << >>
    /\ batch_size = 1
    /\ uncached_coords = << >>
    /\ batch_num = 0
    /\ tasks = << >>
    /\ results = << >>
    /\ raised = NoExc
    /\ reqCount = [k \in AllKeys |-> 0]
    /\ reqBatches = {}
    /\ fatalBatches = {}
    /\ calls = << >>
    /\ cancelled = FALSE
    /\ user_files \in [Users -> InitCaches]
    /\ user_runs = [u \in Users |-> NewRun(user_files[u])]
    /\ LockIdle
    /\ ProcIdle
    /\ ViewIdle

NextUsers ==
    \E u \in Users :
        \/ RunLoad(u)
        \/ RunCopy(u)
        \/ RunSwap(u)
        \/ \E c \in UserCoordSet : \E o \in UserOutcomes : \E j \in JsonOutcomes :
              RunLookup(u, c, o, j)
        \/ RunAnalyzed(u)
        \/ RunSave(u)
        \/ RunRestore(u)

SpecUsers == InitUsers /\ [][NextUsers]_vars

\* Calls of reverse_geocode and is_over_water in any order, or the filter
\* loop that begins a run of batch_reverse_geocode.
InitLookup == InitSync \/ Init

NextLookup ==
    \/ \E c \in CoordSet : \E o \in UserOutcomes : \E j \in JsonOutcomes :
          reverse_geocode(c, o, j) /\ UNCHANGED otherVars
    \/ \E c \in CoordSet : \E w \in BOOLEAN : \E o \in UserOutcomes :
          \E j \in JsonOutcomes : is_over_water(c, w, o, j) /\ UNCHANGED otherVars
    \/ BatchFilter

SpecLookup == InitLookup /\ [][NextLookup]_vars

---------------------------------------------------------------------------
(* GeocodingStats: threads calling its methods, statement by statement *)

StatThreads == {1, 2}

\* The methods and their arguments.  n is coordinates_count of
\* record_batch_request; the callers of the other methods pass no count.
\* (The water_* counters follow the same code with is_water=True.)
StatOps ==
    {[kind |-> k, n |-> 0] :
        k \in {"record_cache_hit", "record_api_call", "record_successful_geocode",
               "record_error", "record_api_failure", "get_stats", "reset"}}
    \cup {[kind |-> "record_batch_request", n |-> n] : n \in 1..2}

\* The counter a method adds to first.
Counter(kind) ==
    CASE kind = "record_cache_hit" -> "cache_hits"
      [] kind = "record_api_call" -> "api_calls"
      [] kind = "record_successful_geocode" -> "successful_geocodes"
      [] kind = "record_error" -> "errors"
      [] kind = "record_api_failure" -> "api_failures"
      [] kind = "record_batch_request" -> "batch_requests"

NoSnapshot == [cache_hits |-> 0, api_calls |-> 0, successful_geocodes |-> 0,
               errors |-> 0, api_failures |-> 0, total |-> 0, batch_requests |-> 0,
               avg_batch_size |-> <<0, 1>>]

Max(a, b) == IF a > b THEN a ELSE b

\* The 'geocoding' dict of get_stats for counters s; avg_batch_size is the
\* quotient total_coordinates_in_batches / max(1, batch_requests), kept as the
\* pair <<dividend, divisor>>.
GeocodingDict(s) ==
    [cache_hits |-> s.cache_hits, api_calls |-> s.api_calls,
     successful_geocodes |-> s.successful_geocodes, errors |-> s.errors,
     api_failures |-> s.api_failures,
     total |-> s.cache_hits + s.api_calls + s.errors,
     batch_requests |-> s.batch_requests,
     avg_batch_size |-> <<s.total_coordinates_in_batches, Max(1, s.batch_requests)>>]

\* A thread: the method it is in (op), its position in it (pc), the value it
\* read for "+=" (tmp), the dict it is building (snap), the calls it has left.
NewThread == [pc |-> "idle", op |-> [kind |-> "none", n |-> 0], field |-> "none",
              tmp |-> 0, snap |-> NoSnapshot, left |-> MaxOps]

\* threading.Lock.acquire() returns only while no thread holds the lock.
LockFreeAlways == TRUE

LockFree == stats_lock = 0

\* The counters after method call op, executed alone.
Completed(s, op) ==
    CASE op.kind = "record_cache_hit" -> record_cache_hit(s)
      [] op.kind = "record_api_call" -> record_api_call(s)
      [] op.kind = "record_successful_geocode" -> record_successful_geocode(s)
      [] op.kind = "record_error" -> record_error(s)
      [] op.kind = "record_api_failure" -> record_api_failure(s)
      [] op.kind = "record_batch_request" -> record_batch_request(s, op.n)
      [] op.kind = "reset" -> ZeroStats
      [] OTHER -> s

\* A thread calls a method: "with self.lock" is entered.
StatsAcquire(t, op) ==
    /\ stat_threads[t].pc = "idle"
    /\ stat_threads[t].left > 0
    /\ LockFree
    /\ stats_lock' = t
    /\ stat_threads' = [stat_threads EXCEPT
          ![t].op = op,
          ![t].left = @ - 1,
          ![t].snap = NoSnapshot,
          ![t].field = IF op.kind \in {"get_stats", "reset"} THEN "none"
                       ELSE Counter(op.kind),
          ![t].pc = CASE op.kind = "get_stats" -> "snap1"
                      [] op.kind = "reset" -> "zero1"
                      [] OTHER -> "read"]
    /\ UNCHANGED <<stats, stats_done, snapshots>>

\* self.<counter> += k, first half: the counter is read.
StatsRead(t) ==
    /\ stat_threads[t].pc = "read"
    /\ stat_threads' = [stat_threads EXCEPT ![t].tmp = stats[stat_threads[t].field],
                                            ![t].pc = "write"]
    /\ UNCHANGED <<stats, stats_lock, stats_done, snapshots>>

\* self.<counter> += k, second half: the sum is stored.
StatsWrite(t) ==
    /\ stat_threads[t].pc = "write"
    /\ LET th == stat_threads[t]
           k == IF th.field = "total_coordinates_in_batches" THEN th.op.n ELSE 1
       IN  /\ stats' = [stats EXCEPT ![th.field] = th.tmp + k]
           /\ stat_threads' = [stat_threads EXCEPT
                 ![t].pc = IF th.field = "batch_requests" THEN "read" ELSE "release",
                 ![t].field = IF th.field = "batch_requests"
                              THEN "total_coordinates_in_batches" ELSE @]
    /\ UNCHANGED <<stats_lock, stats_done, snapshots>>

\* get_stats builds its dict entry by entry.
StatsSnapshot(t) ==
    /\ stat_threads[t].pc \in {"snap1", "snap2", "snap3", "snap4"}
    /\ LET th == stat_threads[t]
           now == GeocodingDict(stats)
       IN  stat_threads' = [stat_threads EXCEPT
             ![t].snap =
                CASE th.pc = "snap1" ->
                       [@ EXCEPT !.cache_hits = now.cache_hits,
                                 !.api_calls = now.api_calls,
                                 !.successful_geocodes = now.successful_geocodes,
                                 !.errors = now.errors,
                                 !.api_failures = now.api_failures]
                  [] th.pc = "snap2" -> [@ EXCEPT !.total = now.total]
                  [] th.pc = "snap3" -> [@ EXCEPT !.batch_requests = now.batch_requests]
                  [] OTHER -> [@ EXCEPT !.avg_batch_size = now.avg_batch_size],
             ![t].pc = CASE th.pc = "snap1" -> "snap2"
                         [] th.pc = "snap2" -> "snap3"
                         [] th.pc = "snap3" -> "snap4"
                         [] OTHER -> "release"]
    /\ UNCHANGED <<stats, stats_lock, stats_done, snapshots>>

\* reset assigns 0 to the counters, the batch counters after the others.
StatsReset(t) ==
    /\ stat_threads[t].pc \in {"zero1", "zero2"}
    /\ IF stat_threads[t].pc = "zero1"
       THEN /\ stats' = [stats EXCEPT !.cache_hits = 0, !.api_calls = 0, !.errors = 0,
                                      !.water_cache_hits = 0]
            /\ stat_threads' = [stat_threads EXCEPT ![t].pc = "zero2"]
       ELSE /\ stats' = [stats EXCEPT !.batch_requests = 0,
                                      !.total_coordinates_in_batches = 0,
                                      !.api_failures = 0, !.successful_geocodes = 0]
            /\ stat_threads' = [stat_threads EXCEPT ![t].pc = "release"]
    /\ UNCHANGED <<stats_lock, stats_done, snapshots>>

\* The with block is left: the lock is released and the method returns.
StatsRelease(t) ==
    /\ stat_threads[t].pc = "release"
    /\ stats_lock' = 0
    /\ stats_done' = Completed(stats_done, stat_threads[t].op)
    /\ snapshots' = IF stat_threads[t].op.kind = "get_stats"
                    THEN Append(snapshots, [dict |-> stat_threads[t].snap,
                                            done |-> stats_done])
                    ELSE snapshots
    /\ stat_threads' = [stat_threads EXCEPT ![t] = [NewThread EXCEPT !.left = stat_threads[t].left]]
    /\ UNCHANGED stats

noLockVars == <<geo_cache, cache_file, geoapify_key, pc, batchVars, reqCount, calls,
                cancelled, user_files, user_runs, procVars, viewVars>>

InitStats ==
    /\ geo_cache = << >>
    /\ cache_file = geo_cache
    /\ stats = ZeroStats
    /\ geoapify_key = TRUE
    /\ pc = "stats"
    /\ coordinates = << >>
    /\ batch_size = 1
    /\ uncached_coords = << >>
    /\ batch_num = 0
    /\ tasks = << >>
    /\ results = << >>
    /\ raised = NoExc
    /\ reqCount = [k \in AllKeys |-> 0]
    /\ reqBatches = {}
    /\ fatalBatches = {}
    /\ calls = << >>
    /\ cancelled = FALSE
    /\ UsersIdle
    /\ stats_lock = 0
    /\ stat_threads = [t \in StatThreads |-> NewThread]
    /\ stats_done = ZeroStats
    /\ snapshots = << >>
    /\ ProcIdle
    /\ ViewIdle

NextStats ==
    \E t \in StatThreads :
        \/ \E op \in StatOps : StatsAcquire(t, op) /\ UNCHANGED noLockVars
        \/ StatsRead(t) /\ UNCHANGED noLockVars
        \/ StatsWrite(t) /\ UNCHANGED noLockVars
        \/ StatsSnapshot(t) /\ UNCHANGED noLockVars
        \/ StatsReset(t) /\ UNCHANGED noLockVars
        \/ StatsRelease(t) /\ UNCHANGED noLockVars

SpecStats == InitStats /\ [][NextStats]_vars

---------------------------------------------------------------------------
(* LocationProcessor.parse_coordinates *)

\* The geocoding functions at rest while a LocationProcessor call runs.
GeoIdle ==
    /\ geo_cache = << >>
    /\ cache_file = geo_cache
    /\ stats = ZeroStats
    /\ geoapify_key = TRUE
    /\ pc = "idle"
    /\ coordinates = << >>
    /\ batch_size = 1
    /\ uncached_coords = << >>
    /\ batch_num = 0
    /\ tasks = << >>
    /\ results = << >>
    /\ raised = NoExc
    /\ reqCount = [k \in AllKeys |-> 0]
    /\ reqBatches = {}
    /\ fatalBatches = {}
    /\ calls = << >>

\* Latitudes and longitudes are integers in units of 1e-7 degree: the
\* number a decimal text or a decimal field spells (float(x) degrees), and
\* float(v) / 10000000 degrees for an E7 field v, which is v of these units.
E7 == 10000000

\* Values at the bounds of the range, one degree and one unit beyond them.
Lats == {-91 * E7, -90 * E7 - 1, -90 * E7, 0, 90 * E7, 90 * E7 + 1, 91 * E7}

Lons == {-181 * E7, -180 * E7 - 1, -180 * E7, 0, 180 * E7, 180 * E7 + 1, 181 * E7}

\* The values parse_coordinates is called with.  shape is
\*   "geo"          the string "geo:<lat>,<lon>"
\*   "geo_parts"    a geo: string with one or three comma separated parts
\*   "geo_text"     a geo: string whose parts are not numbers
\*   "plain"        a string without the geo: prefix
\*   "e7"           a dict with latitudeE7 and longitudeE7
\*   "e7_text"      such a dict whose values are not numbers
\*   "degrees"      a dict with latitude and longitude
\*   "lat_only"     a dict with latitude but no longitude
\*   "falsy"        None, "", {} or 0
\*   "number"       a non-zero number
CoordInput(shape, lat, lon) == [shape |-> shape, lat |-> lat, lon |-> lon]

CoordInputs ==
    {CoordInput(sh, lat, lon) :
        sh \in {"geo", "e7", "degrees"}, lat \in Lats, lon \in Lons}
    \cup {CoordInput(sh, 0, 0) :
            sh \in {"geo_parts", "geo_text", "plain", "e7_text", "lat_only", "falsy",
                    "number"}}

NoCoords == [kind |-> "none", lat |-> 0, lon |-> 0]

Coords(lat, lon) == [kind |-> "pair", lat |-> lat, lon |-> lon]

NotCalled == [kind |-> "not called", lat |-> 0, lon |-> 0]

\* -90 <= lat <= 90 and -180 <= lon <= 180
InRange(lat, lon) ==
    /\ -90 * E7 <= lat /\ lat <= 90 * E7
    /\ -180 * E7 <= lon /\ lon <= 180 * E7

\* The pair, or NoCoords for None.  Every exception raised in the body is
\* caught by its "except:" clause, which returns None.
parse_coordinates(ci) ==
    CASE ci.shape = "falsy" -> NoCoords
      [] ci.shape = "geo" ->
           IF InRange(ci.lat, ci.lon) THEN Coords(ci.lat, ci.lon) ELSE NoCoords
      [] ci.shape = "geo_parts" -> NoCoords    \* len(coords) != 2
      [] ci.shape = "geo_text" -> NoCoords     \* float() raises ValueError
      [] ci.shape = "plain" -> NoCoords        \* not startswith('geo:')
      [] ci.shape = "e7" -> Coords(ci.lat, ci.lon)
      [] ci.shape = "e7_text" -> NoCoords      \* float() raises ValueError
      [] ci.shape = "degrees" -> Coords(ci.lat, ci.lon)
      [] ci.shape = "lat_only" -> NoCoords
      [] OTHER -> NoCoords                     \* neither str nor dict

ParseCoordinates ==
    /\ proc_pc = "parse"
    /\ coord_result' = parse_coordinates(coord_input)
    /\ proc_pc' = "parsed"
    /\ UNCHANGED <<geoVars, cancelled, user_files, user_runs, lockVars, viewVars,
                   coord_input,
                   points, path_info, max_points, sampled, settings, entries,
                   relevant_entries, file_result>>

InitParse ==
    /\ GeoIdle
    /\ cancelled = FALSE
    /\ UsersIdle
    /\ LockIdle
    /\ ViewIdle
    /\ coord_input \in CoordInputs
    /\ coord_result = NotCalled
    /\ points = << >>
    /\ path_info = << >>
    /\ max_points = 0
    /\ sampled = << >>
    /\ settings = << >>
    /\ entries = << >>
    /\ relevant_entries = << >>
    /\ file_result = << >>
    /\ proc_pc = "parse"

NextParse == ParseCoordinates

SpecParse == InitParse /\ [][NextParse]_vars

---------------------------------------------------------------------------
(* LocationProcessor.sample_points and the cap of process_timeline_path *)

\* distance_threshold values on both sides of every limit of the cap
DistanceThresholds == {100, 200, 500, 1000, 2000}

\* max_points of step 3 of process_timeline_path
AdaptiveCap(original_length, filtered_length, distance_threshold) ==
    IF original_length <= 10 \/ filtered_length <= 5
    THEN Min(8, filtered_length)
    ELSE IF distance_threshold >= 2000 THEN 5
    ELSE IF distance_threshold >= 1000 THEN 8
    ELSE IF distance_threshold >= 500 THEN 12
    ELSE IF distance_threshold >= 200 THEN 15
    ELSE 20

\* round(num / den) of Python 3 for num >= 0, den > 0: to the nearest integer,
\* a tie to the even one.
RoundHalfEven(num, den) ==
    LET q == num \div den
        r == num % den
    IN  IF 2 * r < den THEN q
        ELSE IF 2 * r > den THEN q + 1
        ELSE IF q % 2 = 0 THEN q
        ELSE q + 1

MiddleCountAll(max_points_) == max_points_ - 1

\* middle_count = max_points - 2
MiddleCount(max_points_) == max_points_ - 2

\* The 0-based indices of the middle points: int(round(i * step_size)) for
\* step_size = (len(points) - 1) / (middle_count + 1), those below len(points) - 1.
MiddleIndices(n, middle_count) ==
    SelectSeq([i \in 1..middle_count |->
                  RoundHalfEven(i * (n - 1), middle_count + 1)],
              LAMBDA index : index < n - 1)

sample_points(pts, max_points_) ==
    IF Len(pts) <= max_points_ THEN pts
    ELSE IF max_points_ < 2 THEN <<pts[1]>>
    ELSE LET middle == IF max_points_ > 2 /\ MiddleCount(max_points_) > 0
                       THEN MiddleIndices(Len(pts), MiddleCount(max_points_))
                       ELSE << >>
         IN  <<pts[1]>> \o [k \in 1..Len(middle) |-> pts[middle[k] + 1]]
                       \o (IF Len(pts) > 1 THEN <<pts[Len(pts)]>> ELSE << >>)

\* Step 3 of process_timeline_path for the filtered points of one path.
SamplePath ==
    /\ proc_pc = "sample"
    /\ LET cap == AdaptiveCap(path_info.original_length, Len(points),
                              path_info.distance_threshold)
       IN  /\ max_points' = cap
           /\ sampled' = IF Len(points) > cap THEN sample_points(points, cap)
                          ELSE points
    /\ proc_pc' = "sampled"
    /\ UNCHANGED <<geoVars, cancelled, user_files, user_runs, lockVars, viewVars,
                   coord_input,
                   coord_result, points, path_info, settings, entries,
                   relevant_entries, file_result>>

\* The filtered points of a path are numbered 1..n; at step 3 there are at
\* least two of them and no more than the path had.
InitSample ==
    /\ GeoIdle
    /\ cancelled = FALSE
    /\ UsersIdle
    /\ LockIdle
    /\ ViewIdle
    /\ coord_input = << >>
    /\ coord_result = << >>
    /\ \E n \in 2..MaxPoints :
          /\ points = [i \in 1..n |-> i]
          /\ path_info \in [original_length : n..MaxPoints,
                             distance_threshold : DistanceThresholds]
    /\ max_points = 0
    /\ sampled = << >>
    /\ settings = << >>
    /\ entries = << >>
    /\ relevant_entries = << >>
    /\ file_result = << >>
    /\ proc_pc = "sample"

NextSample == SamplePath

SpecSample == InitSample /\ [][NextSample]_vars

---------------------------------------------------------------------------
(* Timestamps and timeline entries *)

\* Instants are minutes since 2023-12-31T00:00Z; day d of the model begins at
\* d * 1440 (day 0 is 2023-12-31, day 1 is 2024-01-01, day 2 is 2024-01-02).
DayMinutes == 1440

Days == 0..2

\* pd.to_datetime(date_string, utc=True) for the date of day d
DateStart(d) == d * DayMinutes

\* The year a date-time of the two years around the epoch lies in.
YearOf(minute) == IF minute < DayMinutes THEN 2023 ELSE 2024

\* A value found under 'startTime' or 'endTime'.  kind is
\*   "iso"     an ISO 8601 string: wall is the date-time it spells (minutes, as
\*             if it were UTC), tz the UTC offset it ends with (minutes)
\*   "text"    a string that is no date
\*   "empty"   the empty string
\*   "number"  a 13-digit number of milliseconds, wall the instant it denotes
\*   "absent"  the key is missing
TimeVal(kind, wall, tz) == [kind |-> kind, wall |-> wall, tz |-> tz]

Iso(wall, tz) == TimeVal("iso", wall, tz)

Parsed(t) == [ok |-> TRUE, t |-> t]

NotParsed == [ok |-> FALSE, t |-> 0]

\* The instant of an ISO string: the date-time it spells minus its offset.
UtcOf(tv) == tv.wall - tv.tz

\* parse_timestamp: NotParsed for None
parse_timestamp(tv) ==
    CASE tv.kind = "iso" -> Parsed(UtcOf(tv))
      [] tv.kind = "number" -> Parsed(tv.wall)   \* len(str(int(x))) == 13
      [] tv.kind = "text" -> NotParsed           \* pd.to_datetime raises
      [] OTHER -> NotParsed                      \* not timestamp_input

\* An entry of the loaded list.  shape is "dict" or, for an entry that is no
\* object, "null", "number" or "string".  kind tells which of the keys
\* 'activity', 'visit', 'timelinePath', 'timestampMs' a dict has.  nested
\* means startTime is a key of the activity / visit dict and not of the entry.
\* start and end are activity.start and activity.end, or for a visit (start)
\* visit.topCandidate.placeLocation; probability is in percent.
Entry(shape, kind, startTime, endTime, nested, start, end, distance, prob, path) ==
    [shape |-> shape, kind |-> kind, startTime |-> startTime, endTime |-> endTime,
     nested |-> nested, start |-> start, end |-> end,
     distanceMeters |-> distance, probability |-> prob, timelinePath |-> path,
     timestampMs |-> TimeVal("absent", 0, 0)]

NoPlace == CoordInput("falsy", 0, 0)

Activity(startTime, endTime, nested, start, end, distanceMeters) ==
    Entry("dict", "activity", startTime, endTime, nested, start, end,
          distanceMeters, 0, << >>)

Visit(startTime, endTime, nested, placeLocation, probability) ==
    Entry("dict", "visit", startTime, endTime, nested, placeLocation, NoPlace, 0,
          probability, << >>)

TimelinePath(startTime, endTime, path) ==
    Entry("dict", "timelinePath", startTime, endTime, FALSE, NoPlace, NoPlace, 0, 0,
          path)

\* {"timestampMs": ..., "latitudeE7": ..., "longitudeE7": ...}: the coordinate
\* of the entry is kept in start.
LegacyPoint(timestampMs, coord) ==
    [Entry("dict", "timestampMs", TimeVal("absent", 0, 0), TimeVal("absent", 0, 0),
           FALSE, coord, NoPlace, 0, 0, << >>) EXCEPT !.timestampMs = timestampMs]

NonDict(shape) ==
    Entry(shape, "none", TimeVal("absent", 0, 0), TimeVal("absent", 0, 0), FALSE,
          NoPlace, NoPlace, 0, 0, << >>)

---------------------------------------------------------------------------
(* LocationProcessor.fast_date_filter *)

\* timestamp_str of the loop of fast_date_filter; "absent" stands for None.
TimestampStr(entry) ==
    IF entry.startTime.kind # "absent" /\ ~entry.nested THEN entry.startTime
    ELSE IF entry.kind \in {"activity", "visit"} /\ entry.nested THEN entry.startTime
    ELSE TimeVal("absent", 0, 0)

\* The year pre-check skips the entry: int(timestamp_str[:4]) is the year the
\* string spells; for a string that is no date int() raises and the check is
\* passed over.
YearCheckSkips(timestamp_str, start_year, end_year) ==
    /\ timestamp_str.kind = "iso"
    /\ \/ YearOf(timestamp_str.wall) < start_year
       \/ YearOf(timestamp_str.wall) > end_year

\* extract_timestamp_fast for an entry whose timestamp_str is a non-empty
\* string (for any other fast_date_filter does not call it).
extract_timestamp_fast(entry) ==
    IF TimestampStr(entry).kind = "iso" THEN Parsed(UtcOf(TimestampStr(entry)))
    ELSE NotParsed

\* What the loop body of fast_date_filter does with one entry: "raise" (an
\* exception leaves fast_date_filter), "keep" or "drop".
DateFilterEntry(entry, from_dt, to_dt) ==
    LET timestamp_str == TimestampStr(entry)
        timestamp == extract_timestamp_fast(entry)
    IN  CASE entry.shape \in {"null", "number"} -> "raise"  \* 'startTime' in entry
          [] entry.shape = "string" -> "drop"               \* substring tests
          [] timestamp_str.kind \in {"absent", "empty"} -> "drop"
          [] timestamp_str.kind = "number" -> "raise"       \* len(timestamp_str)
          [] YearCheckSkips(timestamp_str, YearOf(from_dt), YearOf(to_dt)) -> "drop"
          [] timestamp.ok /\ from_dt <= timestamp.t /\ timestamp.t < to_dt -> "keep"
          [] OTHER -> "drop"

\* raised tells that an exception left the function, kept is relevant_entries.
fast_date_filter(es, from_dt, to_dt) ==
    IF \E i \in DOMAIN es : DateFilterEntry(es[i], from_dt, to_dt) = "raise"
    THEN [raised |-> TRUE, kept |-> << >>]
    ELSE [raised |-> FALSE,
          kept |-> SelectSeq(es, LAMBDA e : DateFilterEntry(e, from_dt, to_dt) = "keep")]

---------------------------------------------------------------------------
(* LocationProcessor.process_entry and the functions it dispatches to *)

\* The settings of a run: from_date and to_date are days, the thresholds are
\* in meters, seconds and percent.
Settings(from_date, to_date, distance_threshold) ==
    [from_date |-> from_date, to_date |-> to_date,
     distance_threshold |-> distance_threshold,
     duration_threshold |-> 600, probability_threshold |-> 10]

\* from_dt = pd.to_datetime(settings['from_date'], utc=True)
FromDt(s) == DateStart(s.from_date)

\* to_dt = pd.to_datetime(settings['to_date'], utc=True) + pd.Timedelta(days=1)
ToDt(s) == DateStart(s.to_date) + DayMinutes

Abs(x) == IF x < 0 THEN -x ELSE x

\* f"{x:.6f}": a value in 1e-7 degree written with six decimals, in 1e-6 degree.
Round6(x) == IF x < 0 THEN -RoundHalfEven(-x, 10) ELSE RoundHalfEven(x, 10)

\* f"geo:{coords[0]:.6f},{coords[1]:.6f}"
FormatGeo(coords) == [lat |-> Round6(coords.lat), lon |-> Round6(coords.lon)]

\* calculate_distance in meters for two coordinates in 1e-7 degree on one
\* meridian, where the haversine formula gives r * (difference of latitude):
\* 1.11195 m for each 1e-5 degree (r = 6371 km).  All path points of this
\* model have the same longitude.
calculate_distance(coord1, coord2) ==
    ((Abs(coord1.lat - coord2.lat) \div 100) * 111195) \div 100000

\* What a processing function returns: ok is FALSE for None.
OutEntry(kind, startTime, endTime, path) ==
    [kind |-> kind, startTime |-> startTime, endTime |-> endTime,
     timelinePath |-> path]

Kept(out) == [ok |-> TRUE, out |-> out]

Dropped ==
    [ok |-> FALSE,
     out |-> OutEntry("none", TimeVal("absent", 0, 0), TimeVal("absent", 0, 0), << >>)]

\* entry['startTime'] and entry['endTime'] raise KeyError for a missing key.
HasTimes(entry) ==
    /\ entry.startTime.kind # "absent"
    /\ ~entry.nested
    /\ entry.endTime.kind # "absent"

process_activity(entry, s) ==
    LET start_coords == parse_coordinates(entry.start)
        end_coords == parse_coordinates(entry.end)
    IN  IF start_coords.kind # "pair" \/ end_coords.kind # "pair" THEN Dropped
        ELSE IF entry.distanceMeters < s.distance_threshold THEN Dropped
        ELSE IF ~HasTimes(entry) THEN Dropped
        ELSE Kept(OutEntry("activity", entry.startTime, entry.endTime, << >>))

\* The duration test when both timestamps parse: too short a stay.
DurationTooShort(start_dt, end_dt, s) ==
    (end_dt.t - start_dt.t) * 60 < s.duration_threshold

process_visit(entry, s) ==
    LET coords == parse_coordinates(entry.start)
        start_dt == parse_timestamp(entry.startTime)
        end_dt == parse_timestamp(entry.endTime)
    IN  IF coords.kind # "pair" THEN Dropped
        ELSE IF ~HasTimes(entry) THEN Dropped
        ELSE IF start_dt.ok /\ end_dt.ok /\ DurationTooShort(start_dt, end_dt, s)
             THEN Dropped
        ELSE IF entry.probability < s.probability_threshold THEN Dropped
        ELSE Kept(OutEntry("visit", entry.startTime, entry.endTime, << >>))

\* The value under 'durationMinutesOffsetFromStartTime' of a path point.  kind is
\*   "int"     the text of an integer, minutes its value ("0", "90", "-120")
\*   "text"    a text int() does not accept ("1.5", "soon")
\*   "empty"   the empty string
\*   "absent"  the key is missing
Offset(kind, minutes) == [kind |-> kind, minutes |-> minutes]

PathPoint(point, offset) == [point |-> point, offset |-> offset]

\* point.get('durationMinutesOffsetFromStartTime', '0')
OffsetOrZero(p) == IF p.offset.kind = "absent" THEN Offset("int", 0) ELSE p.offset

\* get_point_timestamp: kind is "time", "none" (None) or "raise" (ValueError of
\* int(duration_offset_minutes)).
get_point_timestamp(entry_start_time, duration_offset_minutes) ==
    LET start_dt == parse_timestamp(entry_start_time)
    IN  IF ~start_dt.ok THEN [kind |-> "none", t |-> 0]
        ELSE IF duration_offset_minutes.kind = "text" THEN [kind |-> "raise", t |-> 0]
        ELSE IF duration_offset_minutes.kind = "empty"
             THEN [kind |-> "time", t |-> start_dt.t]
        ELSE [kind |-> "time", t |-> start_dt.t + duration_offset_minutes.minutes]

\* The test of step 1 on the time of a point.
PointInRangeAlways(point_time, from_dt, to_dt) == TRUE

PointInRange(point_time, from_dt, to_dt) ==
    /\ point_time.kind = "time"
    /\ from_dt <= point_time.t
    /\ point_time.t < to_dt

\* Step 1 of process_timeline_path: the points whose own time is in the range
\* and whose coordinates parse.
DateFilteredPoints(entry, s) ==
    LET inRange(p) ==
            /\ PointInRange(get_point_timestamp(entry.startTime, OffsetOrZero(p)),
                            FromDt(s), ToDt(s))
            /\ parse_coordinates(p.point).kind = "pair"
        chosen == SelectSeq(entry.timelinePath, inRange)
    IN  [i \in 1..Len(chosen) |->
            [point |-> FormatGeo(parse_coordinates(chosen[i].point)),
             offset |-> OffsetOrZero(chosen[i]),
             coords |-> parse_coordinates(chosen[i].point)]]

\* Step 2 for the first n date-filtered points: the first is always kept, a
\* later one is kept unless it is nearer than the threshold to the last kept
\* point, whose coordinates are read back from its six-decimal text.
RECURSIVE DistanceFiltered(_, _, _)
DistanceFiltered(pts, n, distance_threshold) ==
    IF n = 0 THEN << >>
    ELSE IF n = 1 THEN <<pts[1]>>
    ELSE LET filtered_points == DistanceFiltered(pts, n - 1, distance_threshold)
             last == filtered_points[Len(filtered_points)].point
             last_point_coords == [lat |-> last.lat * 10, lon |-> last.lon * 10]
         IN  IF calculate_distance(last_point_coords, pts[n].coords)
                    < distance_threshold
             THEN filtered_points
             ELSE Append(filtered_points, pts[n])

\* The points as they are returned: without the coordinates of step 1.
OutPoints(pts) ==
    [i \in 1..Len(pts) |-> [point |-> pts[i].point, offset |-> pts[i].offset]]

process_timeline_path(entry, s) ==
    LET timeline_path == entry.timelinePath
        date_filtered_points == DateFilteredPoints(entry, s)
        filtered_points ==
            DistanceFiltered(date_filtered_points, Len(date_filtered_points),
                             s.distance_threshold)
        cap == AdaptiveCap(Len(timeline_path), Len(filtered_points),
                           s.distance_threshold)
    IN  IF timeline_path = << >> THEN Dropped
        ELSE IF entry.startTime.kind = "absent" THEN Dropped      \* KeyError
        ELSE IF \E i \in DOMAIN timeline_path :
                    get_point_timestamp(entry.startTime,
                                        OffsetOrZero(timeline_path[i])).kind = "raise"
             THEN Dropped                                         \* ValueError
        ELSE IF date_filtered_points = << >> THEN Dropped
        ELSE IF entry.endTime.kind = "absent" THEN Dropped        \* KeyError
        ELSE IF Len(filtered_points) = 1
             THEN Kept(OutEntry("timelinePath", entry.startTime, entry.endTime,
                                OutPoints(filtered_points)))
        ELSE IF Len(filtered_points) > cap
             THEN Kept(OutEntry("timelinePath", entry.startTime, entry.endTime,
                                OutPoints(sample_points(filtered_points, cap))))
        ELSE Kept(OutEntry("timelinePath", entry.startTime, entry.endTime,
                           OutPoints(filtered_points)))

\* process_entry; the class has no method process_legacy_location, so the
\* 'timestampMs' branch raises AttributeError, which is caught: None.
process_entry(entry, s) ==
    CASE entry.kind = "activity" -> process_activity(entry, s)
      [] entry.kind = "visit" -> process_visit(entry, s)
      [] entry.kind = "timelinePath" -> process_timeline_path(entry, s)
      [] OTHER -> Dropped

---------------------------------------------------------------------------
(* LocationProcessor.process_file *)

\* The order of two ISO strings as Python compares strings: by the date-time
\* they spell, then by the offset suffix ("+00:00" < "+05:00" < "-05:00").
OffsetRank(tz) == IF tz >= 0 THEN tz ELSE DayMinutes - tz

StringLess(a, b) ==
    \/ a.wall < b.wall
    \/ a.wall = b.wall /\ OffsetRank(a.tz) < OffsetRank(b.tz)

\* processed_entries.sort(key=lambda x: x['startTime']) for the first n
\* entries: a stable sort.
RECURSIVE SortedByStartTime(_, _)
SortedByStartTime(processed, n) ==
    IF n = 0 THEN << >>
    ELSE LET before == SortedByStartTime(processed, n - 1)
             x == processed[n]
             smaller == SelectSeq(before, LAMBDA y : ~StringLess(x.startTime, y.startTime))
             larger == SelectSeq(before, LAMBDA y : StringLess(x.startTime, y.startTime))
         IN  smaller \o <<x>> \o larger

Success(data) == [kind |-> "success", error |-> "", data |-> data]

Error(message) == [kind |-> "error", error |-> message, data |-> << >>]

\* Steps 3 and 4 of process_file: the date range and fast_date_filter.  An
\* exception of fast_date_filter is caught by the except clause of
\* process_file, which returns {'error': str(e)}; so is the empty result.
FastDateFilter ==
    /\ proc_pc = "file"
    /\ LET filtered == fast_date_filter(entries, FromDt(settings), ToDt(settings))
       IN  IF filtered.raised
           THEN /\ file_result' = Error("exception")
                /\ relevant_entries' = << >>
                /\ proc_pc' = "returned"
           ELSE IF filtered.kept = << >>
           THEN /\ file_result' = Error("No entries found in date range")
                /\ relevant_entries' = << >>
                /\ proc_pc' = "returned"
           ELSE /\ relevant_entries' = filtered.kept
                /\ proc_pc' = "filtered"
                /\ UNCHANGED file_result
    /\ UNCHANGED <<geoVars, cancelled, user_files, user_runs, lockVars, viewVars,
                   coord_input,
                   coord_result, points, path_info, max_points, sampled, settings,
                   entries>>

\* Steps 5 and 6 of process_file: process_entry for every relevant entry, then
\* the sort by startTime.
ProcessEntries ==
    /\ proc_pc = "filtered"
    /\ LET results_ == [i \in 1..Len(relevant_entries) |->
                           process_entry(relevant_entries[i], settings)]
           passed == SelectSeq(results_, LAMBDA r : r.ok)
           processed_entries == [i \in 1..Len(passed) |-> passed[i].out]
       IN  file_result' =
               Success(SortedByStartTime(processed_entries, Len(processed_entries)))
    /\ proc_pc' = "returned"
    /\ UNCHANGED <<geoVars, cancelled, user_files, user_runs, lockVars, viewVars,
                   coord_input,
                   coord_result, points, path_info, max_points, sampled, settings,
                   entries, relevant_entries>>

---------------------------------------------------------------------------
(* The files and settings process_file is run on *)

\* All path points lie on the meridian of -122.3 degrees.
Spot(lat) == CoordInput("geo", lat, -1223000000)

Home == Spot(476000000)

Near == Spot(476001000)     \* 11 m north of Home

Far == Spot(476500000)      \* 5.6 km north of Home

NoTime == TimeVal("absent", 0, 0)

\* Day 0 is in 2023, days 1 and 2 in 2024; distance thresholds on both sides
\* of the limit of the smallest cap.
SettingsSet ==
    {Settings(range[1], range[2], d) :
        range \in {r \in Days \X Days : r[1] <= r[2]}, d \in {200, 2000}}

\* Start strings at 23:00 of day 0, 01:00 of day 1 and 01:00 of day 2, each
\* written with the offsets -05:00, +00:00 and +05:00.
StartTimes == {Iso(w, z) : w \in {1380, 1500, 2940}, z \in {-300, 0, 300}}

After(startTime, minutes) == Iso(startTime.wall + minutes, startTime.tz)

FileEntries ==
    {Activity(st, After(st, 30), FALSE, Home, Far, 5600) : st \in StartTimes}
    \cup {Activity(TimeVal(k, 1500, 0), Iso(1530, 0), FALSE, Home, Far, 5600) :
             k \in {"text", "number", "empty", "absent"}}
    \cup {Activity(Iso(1500, 0), Iso(1530, 0), TRUE, Home, Far, 5600),
          Activity(Iso(1500, 0), Iso(1530, 0), FALSE, Home, Near, 11),
          Activity(Iso(1500, 0), Iso(1530, 0), FALSE, CoordInput("geo_text", 0, 0),
                   Far, 5600),
          Activity(Iso(1500, 0), NoTime, FALSE, Home, Far, 5600)}
    \cup {Visit(Iso(1500, 0), Iso(1530, 0), FALSE, Home, 90),
          Visit(Iso(1500, 0), Iso(1505, 0), FALSE, Home, 90),
          Visit(Iso(1500, 0), Iso(1530, 0), FALSE, Home, 5),
          Visit(Iso(1500, 0), TimeVal("text", 0, 0), FALSE, Home, 90),
          Visit(Iso(1500, 0), NoTime, FALSE, Home, 90),
          Visit(Iso(1500, 0), Iso(1530, 0), FALSE, CoordInput("geo_text", 0, 0), 90)}
    \cup {TimelinePath(Iso(1500, 0), Iso(1740, 0),
                       <<PathPoint(Home, Offset("int", 0)),
                         PathPoint(Far, Offset("int", 60))>>)}
    \cup {LegacyPoint(TimeVal("number", 1500, 0), CoordInput("e7", 476000000, -1223000000)),
          LegacyPoint(TimeVal("text", 0, 0), CoordInput("e7", 476000000, -1223000000)),
          LegacyPoint(TimeVal("number", 1500, 0), CoordInput("e7_text", 0, 0))}
    \cup {NonDict("null"), NonDict("number"), NonDict("string")}

\* Offsets 0, 90 and 180 minutes, one before the start, an absent, an empty
\* and a non-integer one, and a point whose coordinates do not parse.
PathPoints ==
    {PathPoint(Home, Offset("int", 0)),
     PathPoint(Near, Offset("int", 90)),
     PathPoint(Far, Offset("int", 180)),
     PathPoint(Home, Offset("int", -120)),
     PathPoint(Far, Offset("absent", 0)),
     PathPoint(Near, Offset("empty", 0)),
     PathPoint(Near, Offset("text", 0)),
     PathPoint(CoordInput("geo_text", 0, 0), Offset("int", 0))}

\* Paths starting at 01:00 and 23:00 of day 1 (UTC), and at 01:00+05:00.
PathStartTimes == {Iso(1500, 0), Iso(2820, 0), Iso(1500, 300)}

\* A path of LongPathLen points 5.6 km and two hours apart, the first at 02:00
\* of day 1: its last points fall on day 2.
LongPath ==
    [i \in 1..LongPathLen |->
        PathPoint(Spot(476000000 + i * 500000), Offset("int", 120 * i))]

PathEntries ==
    {TimelinePath(st, After(st, 240), path) :
        st \in PathStartTimes, path \in SeqsUpTo(PathPoints, MaxPathPoints) \ {<< >>}}
    \cup {TimelinePath(Iso(1440, 0), Iso(2940, 0), LongPath)}

InitFile ==
    /\ GeoIdle
    /\ cancelled = FALSE
    /\ UsersIdle
    /\ LockIdle
    /\ ViewIdle
    /\ coord_input = << >>
    /\ coord_result = << >>
    /\ points = << >>
    /\ path_info = << >>
    /\ max_points = 0
    /\ sampled = << >>
    /\ \/ /\ settings \in {s \in SettingsSet : s.distance_threshold = 200}
          /\ entries \in SeqsUpTo(FileEntries, MaxEntries)
       \/ /\ settings \in SettingsSet
          /\ entries \in {<<e>> : e \in PathEntries}
    /\ relevant_entries = << >>
    /\ file_result = << >>
    /\ proc_pc = "file"

NextFile ==
    \/ FastDateFilter
    \/ ProcessEntries

SpecFile == InitFile /\ [][NextFile]_vars

---------------------------------------------------------------------------
(* LocationMapViewer (location_map_viewer.py) *)

\* self.map_data as load_data builds it.  metadata is << >> when the file has
\* no _metadata.dateRange, else the days (from, to) that dateRange names.
MapData(es, date_range) == [entries |-> es, metadata |-> date_range]

DateRange(from_date, to_date) == [from |-> from_date, to |-> to_date]

\* entry.get('startTime', '')
GetStartTime(entry) ==
    IF entry.nested \/ entry.startTime.kind = "absent"
    THEN TimeVal("empty", 0, 0)
    ELSE entry.startTime

\* A point of the map: one of the dicts extract_coordinates appends.  The
\* times are kept as the strings they are in the code (actual_time is the
\* isoformat of a UTC instant); an absent key has the value NoTime, and
\* follows_discrete_point is -1 when the key is absent.  src and idx are not
\* in the code: they record the position of the originating entry in
\* map_data['entries'] and of the point within that entry.
MapPoint(type, coords, entry, actual_time, src, idx) ==
    [lat |-> coords.lat, lon |-> coords.lon, type |-> type,
     entry_start_time |-> GetStartTime(entry),
     is_timeline |-> (type = "timeline_point"), actual_time |-> actual_time,
     sort_time |-> TimeVal("absent", 0, 0), follows_discrete_point |-> -1,
     src |-> src, idx |-> idx]

\* LocationMapViewer.parse_coordinates: 'geo:lat,lon' strings only.
viewer_parse_coordinates(ci) ==
    IF ci.shape = "geo" /\ InRange(ci.lat, ci.lon)
    THEN Coords(ci.lat, ci.lon)
    ELSE NoCoords

\* LocationMapViewer.get_point_timestamp: every exception gives None.  A
\* start time that is no ISO string gives None, NaT or an instant of 1970,
\* and the point is dropped by the caller in each of these cases.
viewer_get_point_timestamp(entry_start_time, duration_offset_minutes) ==
    IF entry_start_time.kind # "iso" THEN NotParsed
    ELSE IF duration_offset_minutes.kind = "text" THEN NotParsed
    ELSE IF duration_offset_minutes.kind = "empty" THEN Parsed(UtcOf(entry_start_time))
    ELSE Parsed(UtcOf(entry_start_time) + duration_offset_minutes.minutes)

\* The indexes 1..n in the order list.sort(key=...) gives the items whose
\* keys are key[1..n]: a stable sort of strings.
RECURSIVE SortedIndexes(_, _)
SortedIndexes(key, n) ==
    IF n = 0 THEN << >>
    ELSE LET before == SortedIndexes(key, n - 1)
             smaller == SelectSeq(before, LAMBDA j : ~StringLess(key[n], key[j]))
             larger == SelectSeq(before, LAMBDA j : StringLess(key[n], key[j]))
         IN  smaller \o <<n>> \o larger

SortedByKey(items, key) ==
    LET order == SortedIndexes(key, Len(items))
    IN  [k \in 1..Len(items) |-> items[order[k]]]

\* from_dt and to_dt of process_single_timeline_entry: the dateRange of the
\* metadata, or 2020-01-01 and 2030-12-31 (1460 days before and 2557 days
\* after the epoch of the model).
ViewRange(date_range) ==
    IF date_range = << >>
    THEN [from_dt |-> -1460 * DayMinutes, to_dt |-> 2557 * DayMinutes]
    ELSE [from_dt |-> DateStart(date_range.from),
          to_dt |-> DateStart(date_range.to) + DayMinutes]

\* process_single_timeline_entry for the entry at position src.  A missing
\* startTime raises KeyError at the first point, and [] is returned.
process_single_timeline_entry(entry, src, date_range) ==
    LET range == ViewRange(date_range)
        path == entry.timelinePath
        point_time(k) == viewer_get_point_timestamp(entry.startTime, OffsetOrZero(path[k]))
        coords(k) == viewer_parse_coordinates(path[k].point)
        Included(k) ==
            /\ point_time(k).ok
            /\ range.from_dt <= point_time(k).t
            /\ point_time(k).t < range.to_dt
            /\ coords(k).kind = "pair"
        included == SelectSeq([k \in 1..Len(path) |-> k], Included)
        pts == [j \in 1..Len(included) |->
                  MapPoint("timeline_point", coords(included[j]), entry,
                           Iso(point_time(included[j]).t, 0), src, included[j])]
    IN  SortedByKey(pts, [j \in 1..Len(pts) |-> pts[j].actual_time])

\* The points of a visit or an activity: entry_points of extract_coordinates.
DiscretePoints(entry, src) ==
    LET start_coords == viewer_parse_coordinates(entry.start)
        end_coords == viewer_parse_coordinates(entry.end)
        at(type, coords, idx) ==
            IF coords.kind = "pair"
            THEN <<MapPoint(type, coords, entry, TimeVal("absent", 0, 0), src, idx)>>
            ELSE << >>
    IN  CASE entry.kind = "visit" -> at("visit", start_coords, 1)
          [] entry.kind = "activity" ->
               at("activity_start", start_coords, 1) \o at("activity_end", end_coords, 2)
          [] OTHER -> << >>

\* The concatenation of the first n sequences of seqs.
RECURSIVE Flatten(_, _)
Flatten(seqs, n) == IF n = 0 THEN << >> ELSE Flatten(seqs, n - 1) \o seqs[n]

\* The test of the inner loop: both times parse and lie at most 4 hours
\* apart.  An unparsable string raises (the loop continues); the empty
\* string gives NaT and a comparison that is false.
WithinFourHours(discrete_time, timeline_start) ==
    /\ discrete_time.kind = "iso"
    /\ timeline_start.kind = "iso"
    /\ Abs(UtcOf(timeline_start) - UtcOf(discrete_time)) <= 4 * 60

\* list.remove(x) of no element
RemoveNone(list, x) == list

\* timeline_entries.remove(timeline_entry): the first element equal to it
\* leaves the list.  The elements are the entries with their position.
remove(list, x) ==
    LET first == CHOOSE j \in 1..Len(list) :
                     /\ list[j].entry = x.entry
                     /\ \A i \in 1..(j - 1) : list[i].entry # x.entry
    IN  SubSeq(list, 1, first - 1) \o SubSeq(list, first + 1, Len(list))

\* final_points and timeline_entries after the first n rounds of the loop
\* over discrete_points.
RECURSIVE Interleave(_, _, _, _)
Interleave(discrete_points, timeline_entries, date_range, n) ==
    IF n = 0 THEN [final_points |-> << >>, timeline_entries |-> timeline_entries]
    ELSE LET before == Interleave(discrete_points, timeline_entries, date_range, n - 1)
             discrete_point == discrete_points[n]
             with == Append(before.final_points, discrete_point)
             left == before.timeline_entries
             Close(j) == WithinFourHours(discrete_point.entry_start_time,
                                         GetStartTime(left[j].entry))
         IN  IF \E j \in 1..Len(left) : Close(j)
             THEN LET j == CHOOSE j \in 1..Len(left) :
                              Close(j) /\ \A i \in 1..(j - 1) : ~Close(i)
                      timeline_points ==
                          process_single_timeline_entry(left[j].entry, left[j].src,
                                                        date_range)
                      marked == [k \in 1..Len(timeline_points) |->
                                    [timeline_points[k] EXCEPT
                                        !.follows_discrete_point = Len(with) + k - 2]]
                  IN  [final_points |-> with \o marked,
                       timeline_entries |-> remove(left, left[j])]
             ELSE [final_points |-> with, timeline_entries |-> left]

\* LocationMapViewer.extract_coordinates
extract_coordinates(data) ==
    IF data = << >> THEN << >>
    ELSE LET es == data.entries
             positions == [i \in 1..Len(es) |-> [entry |-> es[i], src |-> i]]
             timeline_entries ==
                 SelectSeq(positions, LAMBDA e : e.entry.kind = "timelinePath")
             discrete_entries ==
                 SelectSeq(positions, LAMBDA e : e.entry.kind # "timelinePath")
             found == Flatten([i \in 1..Len(discrete_entries) |->
                                  DiscretePoints(discrete_entries[i].entry,
                                                 discrete_entries[i].src)],
                              Len(discrete_entries))
             discrete_points ==
                 SortedByKey(found, [i \in 1..Len(found) |-> found[i].entry_start_time])
             done == Interleave(discrete_points, timeline_entries, data.metadata,
                                Len(discrete_points))
             rest == done.timeline_entries
         IN  done.final_points
             \o Flatten([i \in 1..Len(rest) |->
                            process_single_timeline_entry(rest[i].entry, rest[i].src,
                                                          data.metadata)],
                        Len(rest))

\* sort_all_points_chronologically: sort_time is set on every point, and the
\* points are sorted by it.
sort_all_points_chronologically(pts) ==
    LET all_points ==
            [i \in 1..Len(pts) |->
                [pts[i] EXCEPT !.sort_time = IF pts[i].is_timeline
                                             THEN pts[i].actual_time
                                             ELSE pts[i].entry_start_time]]
    IN  SortedByKey(all_points, [i \in 1..Len(all_points) |-> all_points[i].sort_time])

\* group_key of group_points_by_entry: f"timeline_{entry_key}",
\* f"activity_{entry_key}" or f"visit_{entry_key}_{lat}_{lon}".
GroupKey(point) ==
    IF point.is_timeline
    THEN [prefix |-> "timeline", entry_key |-> point.entry_start_time, lat |-> 0, lon |-> 0]
    ELSE IF point.type \in {"activity_start", "activity_end"}
    THEN [prefix |-> "activity", entry_key |-> point.entry_start_time, lat |-> 0, lon |-> 0]
    ELSE [prefix |-> "visit", entry_key |-> point.entry_start_time,
          lat |-> point.lat, lon |-> point.lon]

GroupType(group_key) ==
    CASE group_key.prefix = "timeline" -> "timelinePath"
      [] group_key.prefix = "activity" -> "activity"
      [] OTHER -> "visit"

\* group_points_by_entry: list(entries.values()), the groups in the order
\* in which their keys were first met, each sorted by time.
group_points_by_entry(all_points) ==
    LET indexes == [i \in 1..Len(all_points) |-> i]
        IsFirst(i) == \A j \in 1..(i - 1) : GroupKey(all_points[j]) # GroupKey(all_points[i])
        firsts == SelectSeq(indexes, IsFirst)
        group(g) ==
            LET group_key == GroupKey(all_points[firsts[g]])
                members == SelectSeq(all_points, LAMBDA p : GroupKey(p) = group_key)
                key == IF GroupType(group_key) = "timelinePath"
                       THEN [i \in 1..Len(members) |-> members[i].actual_time]
                       ELSE [i \in 1..Len(members) |-> members[i].sort_time]
            IN  [type |-> GroupType(group_key), points |-> SortedByKey(members, key)]
    IN  [g \in 1..Len(firsts) |-> group(g)]

\* LocationMapViewer.calculate_distance in meters for two points on one
\* meridian: floor(d * 1.11195) for a difference of latitude of d * 1e-5
\* degree (r = 6371 km), computed in two parts that fit 32 bits.  All
\* points of this model have the same longitude.
viewer_calculate_distance(point1, point2) ==
    LET d == Abs(point1.lat - point2.lat) \div 100
        thousands == d \div 1000
    IN  thousands * 1111 + ((thousands * 95000 + (d % 1000) * 111195) \div 100000)

\* should_bridge_gap: time_gap > 0, time_gap < 4 * 3600 (seconds; minutes
\* here) and distance < 200000.  Both points have an actual_time.
should_bridge_gap(point1, point2) ==
    LET time_gap == UtcOf(point2.actual_time) - UtcOf(point1.actual_time)
        distance == viewer_calculate_distance(point1, point2)
    IN  /\ time_gap > 0
        /\ time_gap < 4 * 60
        /\ distance < 200000

\* folium.PolyLine(locations=...).add_to(map_obj).  locations holds the
\* points and not only their [lat, lon]; dashArray tells the inferred lines.
PolyLine(locations, dashArray) == [locations |-> locations, dashArray |-> dashArray]

\* add_intelligent_gap_filling: the lines it adds to the map
add_intelligent_gap_filling(entries_with_points) ==
    LET found == SelectSeq(entries_with_points, LAMBDA e : e.type = "timelinePath")
        timeline_entries ==
            SortedByKey(found, [i \in 1..Len(found) |-> found[i].points[1].sort_time])
        Bridged(i) ==
            /\ i < Len(timeline_entries)
            /\ should_bridge_gap(
                   timeline_entries[i].points[Len(timeline_entries[i].points)],
                   timeline_entries[i + 1].points[1])
        bridged == SelectSeq([i \in 1..Len(timeline_entries) |-> i], Bridged)
    IN  [k \in 1..Len(bridged) |->
            PolyLine(<<timeline_entries[bridged[k]].points[
                           Len(timeline_entries[bridged[k]].points)],
                       timeline_entries[bridged[k] + 1].points[1]>>, TRUE)]

\* draw_selective_lines: the lines it adds to the map
draw_selective_lines(all_points) ==
    LET entries_with_points == group_points_by_entry(all_points)
        drawn == SelectSeq(entries_with_points,
                           LAMBDA e : Len(e.points) > 1 /\ e.type = "timelinePath")
    IN  [k \in 1..Len(drawn) |-> PolyLine(drawn[k].points, FALSE)]
        \o add_intelligent_gap_filling(entries_with_points)

\* 199 km and 201 km north of Near
North199 == Spot(476001000 + 17900000)

North201 == Spot(476001000 + 18100000)

\* A visit at 06:00 of day 1, an activity at 11:00 (two points) and a visit
\* whose startTime is a key of the visit dict.
ViewDiscrete ==
    {Visit(Iso(1800, 0), Iso(1830, 0), FALSE, Home, 90),
     Activity(Iso(2100, 0), Iso(2130, 0), FALSE, Near, Far, 5000),
     Visit(Iso(1800, 0), Iso(1830, 0), TRUE, Far, 90)}

\* A path at 21:00 with a point on day 2 and an offset that is no number
LatePath ==
    TimelinePath(Iso(2700, 0), Iso(2940, 0),
                 <<PathPoint(Far, Offset("int", 200)), PathPoint(Near, Offset("text", 0)),
                   PathPoint(Home, Offset("int", 0))>>)

\* Paths starting at 10:00 (two of them), 3 h 59, 4 h and 4 h 01 after the
\* last point of the first one (10:30), 199 km or 201 km from it; the late
\* path; a path whose startTime is no date.
ViewPaths ==
    {TimelinePath(Iso(2040, 0), Iso(2100, 0),
                  <<PathPoint(Home, Offset("int", 0)), PathPoint(Near, Offset("int", 30))>>),
     TimelinePath(Iso(2040, 0), Iso(2130, 0), <<PathPoint(Far, Offset("int", 60))>>),
     TimelinePath(Iso(2309, 0), Iso(2400, 0), <<PathPoint(North199, Offset("int", 0))>>),
     TimelinePath(Iso(2310, 0), Iso(2400, 0), <<PathPoint(North199, Offset("int", 0))>>),
     TimelinePath(Iso(2311, 0), Iso(2400, 0), <<PathPoint(North199, Offset("int", 0))>>),
     TimelinePath(Iso(2309, 0), Iso(2400, 0), <<PathPoint(North201, Offset("int", 0))>>),
     LatePath,
     TimelinePath(TimeVal("text", 0, 0), NoTime, <<PathPoint(Home, Offset("int", 0))>>)}

\* Files of at most MaxViewEntries entries without a dateRange, and those
\* with the late path also with the dateRange of day 1.
ViewFiles ==
    LET files == SeqsUpTo(ViewDiscrete \cup ViewPaths, MaxViewEntries)
    IN  {MapData(es, << >>) : es \in files}
        \cup {MapData(es, DateRange(1, 1)) :
                es \in {f \in files : \E i \in 1..Len(f) : f[i] = LatePath}}

\* The route /load_data for an uploaded file: load_data, then the number of
\* points of extract_coordinates is sent back.
load_data_route ==
    /\ view_pc = "start"
    /\ \E data \in ViewFiles :
          /\ map_data' = data
          /\ final_points' = extract_coordinates(data)
    /\ view_pc' = "loaded"
    /\ UNCHANGED <<geoVars, cancelled, user_files, user_runs, lockVars, procVars, map_obj>>

\* create_map, called by the route /generate_map and by save_static_map:
\* None (here a map without lines) when there are no points.
create_map ==
    /\ view_pc = "loaded"
    /\ final_points' = extract_coordinates(map_data)
    /\ map_obj' = IF final_points' = << >>
                  THEN << >>
                  ELSE draw_selective_lines(sort_all_points_chronologically(final_points'))
    /\ view_pc' = "mapped"
    /\ UNCHANGED <<geoVars, cancelled, user_files, user_runs, lockVars, procVars, map_data>>

InitView ==
    /\ GeoIdle
    /\ OtherInit

NextView ==
    \/ load_data_route
    \/ create_map

SpecView == InitView /\ [][NextView]_vars

---------------------------------------------------------------------------
(* Properties of reverse_geocode, checked under SpecSync *)

\* C1 as stated: with an API key set, two calls of reverse_geocode with the
\* same 5-decimal key, the first of them a cache miss, issue exactly one
\* request between them and the second is a cache hit.
C1_OneRequestForTwoCalls ==
    \A i, j \in DOMAIN calls :
        (geoapify_key /\ i < j /\ calls[i].key = calls[j].key /\ ~calls[i].hit)
        => (calls[i].reqs + calls[j].reqs = 1 /\ calls[j].hit)

\* C1 amended: when the first of two calls with the same 5-decimal key returns
\* (does not raise the stop-signal), the second is a cache hit that issues no
\* request, and the two issue at most one request, exactly one when the first
\* was a cache miss and an API key is set.
C1_SecondCallIsHit ==
    \A i, j \in DOMAIN calls :
        (i < j /\ calls[i].key = calls[j].key /\ calls[i].exc = NoExc)
        => /\ calls[j].hit
           /\ calls[j].reqs = 0
           /\ calls[i].reqs + calls[j].reqs <= 1
           /\ (~calls[i].hit /\ geoapify_key) => calls[i].reqs + calls[j].reqs = 1

C1_Witness ==
    /\ Len(calls) >= 2
    /\ calls[1].coord # calls[2].coord
    /\ calls[1].key = calls[2].key
    /\ ~calls[1].hit /\ calls[1].reqs = 1 /\ calls[1].exc = NoExc
    /\ calls[2].hit /\ calls[2].reqs = 0
    /\ stats.cache_hits = 1

---------------------------------------------------------------------------
(* Properties of batch_reverse_geocode, checked under Spec *)

\* C2: a coroutine raises exactly when its response has status 400, 401 or 403,
\* and then raises the should_stop APIError of that status; once such a status
\* has arrived the batch ends by raising it, and the batch raises nothing else.
C2_FatalPropagates ==
    /\ \A i \in DOMAIN tasks :
          tasks[i].pc = "done"
          => /\ tasks[i].kind = "exc"
                <=> (tasks[i].last.kind = "status"
                     /\ tasks[i].last.status \in FatalStatuses)
             /\ tasks[i].kind = "exc"
                => tasks[i].exc = APIError(tasks[i].last.status, TRUE)
    /\ pc \notin {"gather", "raised"} => fatalBatches = {}
    /\ pc = "raised"
       => /\ raised.should_stop
          /\ \E i \in DOMAIN tasks :
                /\ tasks[i].kind = "exc"
                /\ tasks[i].exc = raised
                /\ tasks[i].last.status \in FatalStatuses

C2_Witness ==
    /\ pc = "raised"
    /\ raised = APIError(403, TRUE)
    /\ \E i \in DOMAIN tasks :
          tasks[i].kind = "value" /\ tasks[i].value.place = "api error 404"

\* C3: no request is issued in a batch later than one in which a fatal status
\* has arrived, and the run never leaves that batch except by raising.
C3_NoLaterBatch ==
    /\ \A k \in fatalBatches : \A b \in reqBatches : b <= k
    /\ fatalBatches # {} => batch_num \in fatalBatches /\ pc \in {"gather", "raised"}

C3_Witness ==
    /\ pc = "raised"
    /\ fatalBatches = {1}
    /\ Len(Batches(uncached_coords, batch_size)) = 2
    /\ reqBatches = {1}

\* C4: when the stop-signal leaves batch_reverse_geocode every coroutine of the
\* batch has ended, and each one that returned a result has its key in the
\* cache, holding the result a coroutine of the batch returned for that key.
C4_SiblingsCached ==
    pc = "raised"
    => \A i \in DOMAIN tasks :
          /\ tasks[i].pc = "done"
          /\ tasks[i].kind = "value"
             => /\ Key(tasks[i].coord) \in DOMAIN geo_cache
                /\ \E j \in DOMAIN tasks :
                      /\ Key(tasks[j].coord) = Key(tasks[i].coord)
                      /\ tasks[j].kind = "value"
                      /\ geo_cache[Key(tasks[i].coord)] = tasks[j].value

\* A sibling that was in flight when the fatal status arrived, ended after it.
C4_Witness ==
    /\ pc = "raised"
    /\ \E i, j \in DOMAIN tasks :
          /\ tasks[i].kind = "exc"
          /\ tasks[j].kind = "value" /\ tasks[j].late /\ tasks[j].reqs = 1
          /\ geo_cache[Key(tasks[j].coord)] = tasks[j].value

\* The coordinates of the batches before batch k.
EarlierCoords(k) ==
    {Batches(uncached_coords, batch_size)[b][i] :
        b \in 1..(k - 1), i \in 1..Min(batch_size, MaxBatch)}
    \cap {uncached_coords[i] : i \in DOMAIN uncached_coords}

\* C5 as stated: whenever batch k is about to start, runs, or has been aborted
\* by a fatal status, the cache file holds the results of batches 1..k-1.
C5_PersistedAfterEachBatch ==
    pc \in {"dispatch", "gather", "raised"}
    => \A c \in EarlierCoords(batch_num) : Key(c) \in DOMAIN cache_file

\* C6 as stated: a lookup whose request is answered 429 issues the request once
\* more, so a lookup that has ended on a 429 response has issued two requests,
\* and no lookup issues more than two.
C6_RetryOnce ==
    \A i \in DOMAIN tasks :
        /\ tasks[i].reqs <= 2
        /\ (tasks[i].pc = "done" /\ tasks[i].last = StatusOutcome(429))
           => tasks[i].reqs = 2

Recoverable(o) ==
    \/ o.kind \in {"timeout", "exception"}
    \/ o.kind = "status" /\ o.status \in {404, 500, 302}

SentinelPlaces == {"api error 404", "api error 500", "api error 302", "timeout",
                   "error: connection reset", "error: invalid json"}

\* C7, the state a recoverable lookup ends in: one error recorded, the
\* sentinel returned, its key cached.
C7_State ==
    \A i \in DOMAIN tasks :
        (tasks[i].pc = "done" /\ tasks[i].reqs > 0 /\ Recoverable(tasks[i].last))
        => /\ tasks[i].errs = 1
           /\ tasks[i].kind = "value"
           /\ tasks[i].value.is_water
           /\ tasks[i].value.place \in SentinelPlaces
           /\ Key(tasks[i].coord) \in DOMAIN geo_cache

\* C7, the step that ends a recoverable lookup: it writes the returned
\* sentinel under the precise key and counts one error.
C7_Step ==
    \A i \in DOMAIN tasks :
        (/\ i \in DOMAIN tasks'
         /\ tasks[i].pc \in {"waiting", "json"}
         /\ tasks'[i].pc = "done"
         /\ Recoverable(tasks'[i].last))
        => /\ geo_cache'[Key(tasks[i].coord)] = tasks'[i].value
           /\ stats'.errors = stats.errors + 1

\* C7, the run goes on: the results are collected only when every coroutine
\* of the batch has ended, only a fatal status aborts the run, and a run that
\* returns has processed its last batch.
C7_Continues ==
    /\ pc \in {"sleep", "save", "returned", "raised"} => GatherDone(tasks)
    /\ pc = "raised" => \E i \in DOMAIN tasks : tasks[i].last.status \in FatalStatuses
    /\ (pc = "returned" /\ uncached_coords # << >>)
       => batch_num = Len(Batches(uncached_coords, batch_size))

\* C7: a lookup that meets a recoverable condition (404, >= 500, another
\* unexpected status, a timeout, a transport exception) records exactly one
\* error, caches the sentinel under the precise key and returns it, and the
\* rest of the batch and the later batches still run.
C7_RecoverableSentinel == []C7_State /\ [][C7_Step]_vars /\ []C7_Continues

C7_Witness ==
    /\ pc = "returned"
    /\ batch_num = 2
    /\ Len(coordinates) = 2
    /\ results[coordinates[1]] = Sentinel("timeout")
    /\ geo_cache[Key(coordinates[1])] = Sentinel("timeout")
    /\ results[coordinates[2]].place = "main street"
    /\ stats.errors = 1

\* C8 as stated: a lookup answered 200 or 202 whose body was read returns a
\* parsed GeoResult that is cached, counts no error and is no failure sentinel.
C8_SuccessPath ==
    \A i \in DOMAIN tasks :
        (/\ tasks[i].pc = "done"
         /\ tasks[i].last.kind = "status"
         /\ tasks[i].last.status \in {200, 202})
        => /\ tasks[i].errs = 0
           /\ tasks[i].kind = "value"
           /\ tasks[i].value.place # "geocoding failed"
           /\ Key(tasks[i].coord) \in DOMAIN geo_cache

\* C9: batch_reverse_geocode ends either by raising a should_stop APIError or
\* by returning results with an entry for every coordinate of its input.
C9_ResultForEveryCoordinate ==
    /\ pc = "returned"
       => \A i \in DOMAIN coordinates :
             /\ coordinates[i] \in DOMAIN results
             /\ results[coordinates[i]] # NoResult
    /\ pc = "raised" => raised.should_stop /\ raised.status_code \in FatalStatuses

C9_Witness ==
    /\ pc = "returned"
    /\ Len(coordinates) = 2
    /\ stats.cache_hits = 1
    /\ stats.errors = 1
    /\ coordinates[1] # coordinates[2]
    /\ \A i \in DOMAIN coordinates : coordinates[i] \in DOMAIN results

\* C10 as stated: a run issues at most one request per 5-decimal key, and none
\* for a coordinate whose precise or fallback key was cached when it started.
C10_OneRequestPerKey ==
    /\ \A k \in AllKeys : reqCount[k] <= 1
    /\ pc # "returned"
       => \A i \in DOMAIN coordinates :
             (Key(coordinates[i]) \in DOMAIN cache_file
              \/ KeyFallback(coordinates[i]) \in DOMAIN cache_file)
             => reqCount[Key(coordinates[i])] = 0

\* C11 as stated: a key that holds a value in the cache keeps that value in
\* every later step of the run; no operation assigns the key again.
C11_WriteOnce ==
    [][\A k \in DOMAIN geo_cache :
          k \in DOMAIN geo_cache' /\ geo_cache'[k] = geo_cache[k]]_vars

\* C12: while a batch is gathered its coroutines are those of one batch of at
\* most min(batch_size, 25) coordinates, every request in flight or answered
\* belongs to the batch being gathered, and when the next batch is about to
\* be dispatched every coroutine of the previous one has ended.
C12_OneBatchInFlight ==
    /\ Len(tasks) <= Min(batch_size, MaxBatch)
    /\ pc = "gather"
       => /\ Len(tasks) = Len(Batches(uncached_coords, batch_size)[batch_num])
          /\ \A i \in DOMAIN tasks :
                tasks[i].coord = Batches(uncached_coords, batch_size)[batch_num][i]
    /\ \A b \in reqBatches : b <= batch_num
    /\ pc \in {"dispatch", "sleep"} => GatherDone(tasks)
    /\ \A i \in DOMAIN tasks : tasks[i].pc \in {"waiting", "json"} => pc = "gather"

C12_Witness ==
    /\ pc = "gather"
    /\ batch_num = 2
    /\ reqBatches = {1, 2}
    /\ \E i \in DOMAIN tasks : tasks[i].pc = "waiting"

---------------------------------------------------------------------------
(* Properties of a cancelled run, checked under SpecCancel *)

\* C13 as stated: once the cancellation predicate returns true while a batch
\* is being processed, the run starts no later batch.
C13_NoNewBatchAfterCancel ==
    [][(cancelled /\ batch_num >= 1) => batch_num' = batch_num]_vars

---------------------------------------------------------------------------
(* Properties of concurrent analysis threads, checked under SpecUsers *)

\* The keys that belong to user u: those of the user's cache file when the
\* thread started and those its own lookups wrote.
OwnKeys(u) ==
    DOMAIN user_runs[u].file0
    \cup {calls[i].key : i \in {n \in user_runs[u].mine :
                                  ~calls[n].hit /\ calls[n].exc = NoExc}}

\* C14 as stated: a user's cache file holds only that user's own keys, a
\* finished run has all of its own keys in the user's file, and every cache
\* hit of a run is on one of the user's own keys.
C14_UserIsolation ==
    \A u \in DOMAIN user_runs :
        /\ DOMAIN user_files[u] \subseteq OwnKeys(u)
        /\ user_runs[u].pc = "done" => OwnKeys(u) \subseteq DOMAIN user_files[u]
        /\ \A i \in user_runs[u].mine :
              calls[i].hit => \/ calls[i].key \in OwnKeys(u)
                              \/ KeyFallback(calls[i].coord) \in OwnKeys(u)

---------------------------------------------------------------------------
(* Properties of GeocodingStats, checked under SpecStats *)

\* C15: the methods exclude each other; whenever no method is running the
\* counters are those after the completed calls (no increment is lost); and
\* every dict get_stats returned is the one of the counters after the calls
\* completed before it, so its total is cache_hits + api_calls + errors and its
\* batch_requests and avg_batch_size belong to the same completed calls.
C15_StatsConsistent ==
    /\ \A t \in DOMAIN stat_threads : stat_threads[t].pc # "idle" => stats_lock = t
    /\ stats_lock = 0 => stats = stats_done
    /\ \A i \in DOMAIN snapshots :
          /\ snapshots[i].dict = GeocodingDict(snapshots[i].done)
          /\ snapshots[i].dict.total = snapshots[i].dict.cache_hits
                                       + snapshots[i].dict.api_calls
                                       + snapshots[i].dict.errors

\* A snapshot taken after a batch request of one thread and a cache hit of the
\* other, while the other thread still has a call to make.
C15_Witness ==
    /\ Len(snapshots) = 1
    /\ snapshots[1].dict.batch_requests = 1
    /\ snapshots[1].dict.avg_batch_size = <<2, 1>>
    /\ snapshots[1].dict.total = 1
    /\ \E t \in StatThreads : stat_threads[t].left > 0

---------------------------------------------------------------------------
(* Properties of parse_coordinates, checked under SpecParse *)

\* C19 as stated: for each of the three shapes parse_coordinates returns a
\* pair only when the latitude and the longitude are in range, and returns
\* None for out-of-range and for malformed input.
C19_ValidCoordinates ==
    proc_pc = "parsed"
    => /\ coord_result.kind = "pair" => InRange(coord_result.lat, coord_result.lon)
       /\ coord_input.shape \notin {"geo", "e7", "degrees"}
          => coord_result = NoCoords
       /\ (/\ coord_input.shape \in {"geo", "e7", "degrees"}
           /\ ~InRange(coord_input.lat, coord_input.lon))
          => coord_result = NoCoords

---------------------------------------------------------------------------
(* Properties of sample_points, checked under SpecSample *)

\* C18: when the filtered points of a path are more than the cap, the sampled
\* list begins with the first of them, ends with the last of them and has at
\* most cap elements.
C18_SamplingInvariant ==
    (proc_pc = "sampled" /\ Len(points) > max_points)
    => /\ sampled[1] = points[1]
       /\ sampled[Len(sampled)] = points[Len(points)]
       /\ Len(sampled) <= max_points

\* Six points sampled down to the cap of 5, a tie of round() among the indices.
C18_Witness ==
    /\ proc_pc = "sampled"
    /\ Len(points) = 6
    /\ max_points = 5
    /\ sampled = <<1, 2, 3, 5, 6>>

---------------------------------------------------------------------------
(* Properties of process_file, checked under SpecFile *)

\* The entry is among those fast_date_filter retained.
Retained(entry) == \E j \in DOMAIN relevant_entries : relevant_entries[j] = entry

\* C16: once the coarse date pass has run without raising, an entry whose
\* start time is an ISO string is retained if and only if the UTC instant it
\* denotes satisfies from <= start < to + 1 day.
C16_DateFilter ==
    (proc_pc = "filtered" \/ (proc_pc = "returned" /\ file_result.error # "exception"))
    => \A i \in DOMAIN entries :
          TimestampStr(entries[i]).kind = "iso"
          => (Retained(entries[i])
              <=> /\ FromDt(settings) <= UtcOf(TimestampStr(entries[i]))
                  /\ UtcOf(TimestampStr(entries[i])) < ToDt(settings))

\* The entry is returned by process_file when it is the only one of the file.
Survives(entry, s) ==
    /\ DateFilterEntry(entry, FromDt(s), ToDt(s)) = "keep"
    /\ process_entry(entry, s).ok

\* C20: whatever other entries the list holds, process_file succeeds and its
\* data holds the processed form of every entry that survives on its own.
C20_MalformedEntryDropped ==
    proc_pc = "returned"
    => \A i \in DOMAIN entries :
          Survives(entries[i], settings)
          => /\ file_result.kind = "success"
             /\ \E j \in DOMAIN file_result.data :
                   file_result.data[j] = process_entry(entries[i], settings).out

\* The absolute time of a path point: the path start plus the offset minutes.
AbsoluteTime(startTime, offset) ==
    UtcOf(startTime) + (IF offset.kind = "int" THEN offset.minutes ELSE 0)

InRequestedRange(t, s) == DateStart(s.from_date) <= t /\ t < DateStart(s.to_date + 1)

\* The points of a path entry whose own time lies in the requested range and
\* whose coordinates parse, in the order of the path.
Survivors(entry, s) ==
    SelectSeq(entry.timelinePath,
              LAMBDA p : /\ InRequestedRange(AbsoluteTime(entry.startTime, p.offset), s)
                         /\ parse_coordinates(p.point).kind = "pair")

\* C17: every path of the output comes from a path entry of which at least one
\* point survives the per-point date test; each point of the output has its
\* own absolute time in [from, to + 1 day); and the output begins with the
\* first surviving point, so that points outside the range were dropped
\* before the distance filter and the sampling saw them.
C17_PathPointIndependence ==
    (proc_pc = "returned" /\ file_result.kind = "success")
    => \A j \in DOMAIN file_result.data :
          file_result.data[j].kind = "timelinePath"
          => \E i \in DOMAIN entries :
                LET entry == entries[i]
                    out == file_result.data[j]
                IN  /\ entry.kind = "timelinePath"
                    /\ entry.startTime = out.startTime
                    /\ Survivors(entry, settings) # << >>
                    /\ out.timelinePath # << >>
                    /\ \A k \in DOMAIN out.timelinePath :
                          InRequestedRange(
                              AbsoluteTime(out.startTime, out.timelinePath[k].offset),
                              settings)
                    /\ out.timelinePath[1].point
                          = FormatGeo(parse_coordinates(
                                Survivors(entry, settings)[1].point))

\* A path starting at 23:00 with points at offsets 0, 90 and 180 minutes,
\* asked for that day alone: only the point at offset 0 is returned.
C17_Witness ==
    /\ proc_pc = "returned"
    /\ file_result.kind = "success"
    /\ settings.from_date = 1
    /\ settings.to_date = 1
    /\ Len(entries) = 1
    /\ entries[1].kind = "timelinePath"
    /\ entries[1].startTime = Iso(2820, 0)
    /\ entries[1].timelinePath = <<PathPoint(Home, Offset("int", 0)),
                                   PathPoint(Near, Offset("int", 90)),
                                   PathPoint(Far, Offset("int", 180))>>
    /\ Len(file_result.data) = 1
    /\ file_result.data[1].timelinePath
          = <<[point |-> [lat |-> 47600000, lon |-> -122300000],
               offset |-> Offset("int", 0)]>>

\* A legacy point is among the returned entries.
LegacyReturned ==
    /\ file_result.kind = "success"
    /\ \E j \in DOMAIN file_result.data : file_result.data[j].kind = "timestampMs"

\* C22: a file holding one legacy point returns it if and only if its
\* coordinate and its timestamp both parse and the timestamp lies in
\* [from, to + 1 day).
C22_LegacyPointSurvives ==
    (proc_pc = "returned" /\ Len(entries) = 1 /\ entries[1].kind = "timestampMs")
    => (LegacyReturned
        <=> /\ parse_coordinates(entries[1].start).kind = "pair"
            /\ parse_timestamp(entries[1].timestampMs).ok
            /\ FromDt(settings) <= parse_timestamp(entries[1].timestampMs).t
            /\ parse_timestamp(entries[1].timestampMs).t < ToDt(settings))

\* C23: a file holding one visit that passes the date pass returns it if and
\* only if its place coordinate parses, its probability is at least the
\* probability threshold and, where both timestamps parse, its duration in
\* seconds is at least the duration threshold.
C23_VisitSurvives ==
    (proc_pc = "returned" /\ Len(entries) = 1 /\ entries[1].kind = "visit"
        /\ file_result.kind = "success")
    => LET visit == entries[1]
           start_dt == parse_timestamp(visit.startTime)
           end_dt == parse_timestamp(visit.endTime)
       IN  file_result.data # << >>
           <=> /\ parse_coordinates(visit.start).kind = "pair"
               /\ visit.probability >= settings.probability_threshold
               /\ (start_dt.ok /\ end_dt.ok)
                    => (end_dt.t - start_dt.t) * 60 >= settings.duration_threshold

\* C24: with an absent or unparsable offset counted as 0 minutes, a path of
\* which some point has its time in the requested range and coordinates that
\* parse is returned: an unparsable offset drops neither the point nor the path.
C24_UnparsableOffsetIsZero ==
    (proc_pc = "returned" /\ Len(entries) = 1 /\ entries[1].kind = "timelinePath"
        /\ file_result.kind = "success")
    => (Survivors(entries[1], settings) # << >>
        => /\ file_result.data # << >>
           /\ file_result.data[1].timelinePath # << >>)

---------------------------------------------------------------------------
(* Further properties of batch_reverse_geocode, checked under Spec *)

\* C25: when the stop-signal has left batch_reverse_geocode, the cache has no
\* entry under the key of a coordinate whose request ended with a fatal status.
C25_FatalNotCached ==
    pc = "raised"
    => \A i \in DOMAIN tasks :
          IsStop(tasks[i]) => Key(tasks[i].coord) \notin DOMAIN geo_cache

---------------------------------------------------------------------------
(* Properties of cache lookups, checked under SpecLookup *)

\* The call of reverse_geocode or is_over_water a step adds to calls.
NewCall == calls'[Len(calls')]

\* The fallback key of that call: a water key for is_over_water.
NewCallFallback ==
    IF Len(NewCall.key) = 3 THEN WaterKey(KeyFallback(NewCall.coord))
    ELSE KeyFallback(NewCall.coord)

\* The counters after one more hit of the kind of that call.
NewCallCounted ==
    IF Len(NewCall.key) = 3 THEN [stats EXCEPT !.water_cache_hits = @ + 1]
    ELSE [stats EXCEPT !.cache_hits = @ + 1]

\* The value the cache holds for a lookup with these keys, the precise first.
Cached(key, key_fallback) ==
    IF key \in DOMAIN geo_cache THEN geo_cache[key] ELSE geo_cache[key_fallback]

InCache(key, key_fallback) ==
    key \in DOMAIN geo_cache \/ key_fallback \in DOMAIN geo_cache

\* A call of reverse_geocode or is_over_water whose precise or fallback key
\* is cached.
C26_SyncHit ==
    (Len(calls') = Len(calls) + 1 /\ InCache(NewCall.key, NewCallFallback))
    => /\ NewCall.hit
       /\ NewCall.value = Cached(NewCall.key, NewCallFallback)
       /\ NewCall.reqs = 0
       /\ reqCount' = reqCount
       /\ geo_cache' = geo_cache
       /\ cache_file' = cache_file
       /\ stats' = NewCallCounted

\* The positions of the input list of batch_reverse_geocode whose precise or
\* fallback key is cached.
CachedInputs ==
    {i \in DOMAIN coordinates :
        InCache(Key(coordinates[i]), KeyFallback(coordinates[i]))}

\* The filter loop of batch_reverse_geocode.
C26_BatchHit ==
    (pc = "start" /\ pc' # "start")
    => /\ \A i \in CachedInputs :
             /\ coordinates[i] \in DOMAIN results'
             /\ results'[coordinates[i]]
                   = Cached(Key(coordinates[i]), KeyFallback(coordinates[i]))
             /\ \A k \in DOMAIN uncached_coords' :
                   uncached_coords'[k] # coordinates[i]
       /\ stats' = [stats EXCEPT !.cache_hits = @ + Cardinality(CachedInputs)]
       /\ reqCount' = reqCount
       /\ geo_cache' = geo_cache
       /\ cache_file' = cache_file

\* C26: a lookup whose precise key or, failing that, fallback key is cached
\* returns the cached value, the precise key first, issues no request, leaves
\* the cache unchanged and adds exactly one to the cache-hit counter.
C26_CacheHitShortCircuit == [][C26_SyncHit /\ C26_BatchHit]_vars

\* A hit through the fallback key: is_over_water found the flag an earlier
\* call stored for a coordinate with four decimals.
C26_Witness ==
    /\ pc = "sync"
    /\ Len(calls) = 2
    /\ calls[2].hit
    /\ calls[2].key = WaterKey(<<210, 100>>)
    /\ calls[2].key \notin DOMAIN geo_cache
    /\ WaterKey(<<200, 100>>) \in DOMAIN geo_cache
    /\ stats.water_cache_hits = 1

---------------------------------------------------------------------------
(* Statistics of a run of batch_reverse_geocode, checked under Spec *)

\* C29: a run that started with reset counters and returned has counted every
\* input coordinate exactly once in cache_hits, api_calls or errors.
C29_StatsAccounting ==
    pc = "returned"
    => stats.cache_hits + stats.api_calls + stats.errors = Len(coordinates)

\* A run over two coordinates, one answered from the cache, one by a request
\* that failed.
C29_Witness ==
    /\ pc = "returned"
    /\ Len(coordinates) = 2
    /\ stats.cache_hits = 1
    /\ stats.api_calls = 0
    /\ stats.errors = 1

---------------------------------------------------------------------------
(* The end of an analysis thread, checked under SpecUsers *)

\* The analysis of user u has ended, by returning or by raising, and no other
\* thread has started.
EndedAlone(u) ==
    /\ user_runs[u].pc \in {"done", "failed"}
    /\ \A v \in Users \ {u} : user_runs[v].pc = "load"

\* C30: when the analysis of a user has ended, on whatever path, the
\* module-level cache is again what it was before the swap and every result
\* the analysis cached is in the user's cache file.
C30_SwapUndone ==
    \A u \in Users :
        EndedAlone(u)
        => /\ geo_cache = user_runs[u].original_cache
           /\ \A i \in user_runs[u].mine :
                 (calls[i].exc = NoExc /\ ~calls[i].hit)
                 => calls[i].key \in DOMAIN user_files[u]

---------------------------------------------------------------------------
(* Properties of the map viewer, checked under SpecView *)

\* The points of the path entry at position i of the loaded file.
PathGroup(i) ==
    process_single_timeline_entry(map_data.entries[i], i, map_data.metadata)

\* The path entries that have a point on the map.
PathGroups ==
    {i \in 1..Len(map_data.entries) :
        map_data.entries[i].kind = "timelinePath" /\ PathGroup(i) # << >>}

FirstPoint(i) == PathGroup(i)[1]

LastPoint(i) == PathGroup(i)[Len(PathGroup(i))]

\* Group b begins after group a, and no other group begins in between.
ChronologicallyNext(a, b) ==
    LET begin(i) == UtcOf(FirstPoint(i).actual_time)
    IN  /\ begin(a) < begin(b)
        /\ \A c \in PathGroups \ {a, b} : begin(c) < begin(a) \/ begin(c) > begin(b)

SamePoint(p, q) == p.src = q.src /\ p.idx = q.idx

\* The map has a dashed line from p to q.
InferredConnector(p, q) ==
    \E k \in 1..Len(map_obj) :
        /\ map_obj[k].dashArray
        /\ Len(map_obj[k].locations) = 2
        /\ SamePoint(map_obj[k].locations[1], p)
        /\ SamePoint(map_obj[k].locations[2], q)

\* More than 0 and less than 240 minutes, and less than 200 km
Bridgeable(p, q) ==
    LET time_gap == UtcOf(q.actual_time) - UtcOf(p.actual_time)
    IN  /\ 0 < time_gap
        /\ time_gap < 240
        /\ viewer_calculate_distance(p, q) < 200000

\* C21: on the map, the last point of a path group and the first point of
\* the chronologically next path group (a group being the points of one
\* path entry) are joined by an inferred connector if and only if the time
\* between them is more than 0 and less than 4 hours and their distance is
\* less than 200 km.
C21_GapBridgeRule ==
    view_pc = "mapped"
    => \A a \in PathGroups : \A b \in PathGroups :
          ChronologicallyNext(a, b)
          => (InferredConnector(LastPoint(a), FirstPoint(b))
              <=> Bridgeable(LastPoint(a), FirstPoint(b)))

\* C27: every continuous line of the map runs through points of one and the
\* same entry of the file.
C27_LinesWithinOneEntry ==
    view_pc = "mapped"
    => \A k \in 1..Len(map_obj) :
          ~map_obj[k].dashArray
          => \A i \in 1..Len(map_obj[k].locations) :
                map_obj[k].locations[i].src = map_obj[k].locations[1].src

\* The points of every entry of the file, as sets.
ExpectedPoints ==
    UNION {{PathGroup(i)[k] : k \in 1..Len(PathGroup(i))} \cup
           {DiscretePoints(map_data.entries[i], i)[k] :
               k \in 1..Len(DiscretePoints(map_data.entries[i], i))} :
           i \in 1..Len(map_data.entries)}

\* The positions of final_points at which point p stands.
PositionsOf(p) ==
    {k \in 1..Len(final_points) :
        [final_points[k] EXCEPT !.follows_discrete_point = -1] = p}

\* The points of group stand next to each other in final_points, in the
\* order of the group, from position first on.
StandsAt(group, first) ==
    /\ first + Len(group) - 1 <= Len(final_points)
    /\ \A k \in 1..Len(group) : SamePoint(final_points[first + k - 1], group[k])

\* Group i follows a discrete point not more than 4 hours from its start.
SplicedAt(i, first) ==
    /\ first > 1
    /\ ~final_points[first - 1].is_timeline
    /\ WithinFourHours(final_points[first - 1].entry_start_time,
                       GetStartTime(map_data.entries[i]))

\* Only points of paths follow position first.
InTail(first) ==
    \A k \in first..Len(final_points) : final_points[k].is_timeline

\* C28: in what extract_coordinates returns, every discrete point and every
\* point of every path group stands exactly once; a path group stands in one
\* piece, either right after a discrete point that is at most 4 hours from
\* the start of the group, or at the end behind all discrete points.
C28_RouteConservesPoints ==
    view_pc # "start"
    => /\ \A p \in ExpectedPoints : Cardinality(PositionsOf(p)) = 1
       /\ Len(final_points) = Cardinality(ExpectedPoints)
       /\ \A i \in PathGroups :
             LET group == PathGroup(i)
             IN  \E first \in 1..Len(final_points) :
                    /\ StandsAt(group, first)
                    /\ SplicedAt(i, first) \/ InTail(first)

\* Two path groups begin within 4 hours of one discrete point: one of them
\* follows that point, the other one stands at the end, behind a later
\* discrete point.
C28_Witness ==
    /\ view_pc = "loaded"
    /\ \E i \in PathGroups : \E j \in PathGroups \ {i} :
          \E first \in 2..Len(final_points) : \E last \in 1..Len(final_points) :
             /\ StandsAt(PathGroup(i), first)
             /\ SplicedAt(i, first)
             /\ WithinFourHours(final_points[first - 1].entry_start_time,
                                GetStartTime(map_data.entries[j]))
             /\ StandsAt(PathGroup(j), last)
             /\ InTail(last)
             /\ \E k \in first..last : ~final_points[k].is_timeline

====
